---- MODULE Spec2Model ----
(***************************************************************************)
(* Campaign-verification backend (Backend-MHD1).                           *)
(*                                                                         *)
(* The module holds several specifications over one set of variables:      *)
(*   SpecDeduct  - deductEmployeeBalanceForTask (employeeController.js)     *)
(*   SpecStatus  - setEntryStatus (entryController.js, both generations)    *)
(*   SpecSettle  - both settlement triggers over one Employee collection    *)
(*   SpecRules   - the verified decision of createUserEntry (pure)          *)
(*   SpecEntry   - createUserEntry, permalink/API generation                *)
(*   SpecRace    - createUserEntry, well-formed requests on one link         *)
(*   SpecSeq     - createUserEntry, one request at a time on one link        *)
(*   SpecPair    - createUserEntry, a link asking for two comments, two      *)
(*                 replies                                                   *)
(*   SpecLink    - createLink (adminController.js)                           *)
(*   SpecHam     - hexHamming (entryController.js)                           *)
(*   SpecImg     - createUserEntry, five-image generations, one at a time    *)
(*   SpecImgRace - createUserEntry, five-image generation, two requests      *)
(*   SpecVis     - callVisionFast (email extraction controller)              *)
(*   SpecExtract - extractEmailsAndHandlesBatch and its cache                *)
(*   SpecFix     - fix-indexes.js, run twice with the same arguments         *)
(*   SpecAcct    - createEmployeeEntry, updateEntry, setEntryStatus on one   *)
(*                 employee entry                                            *)
(*   SpecOcr     - analyzeBundle of the OCR analyzer                         *)
(* A specification leaves the variables of the other parts at their        *)
(* initial value.                                                           *)
(***************************************************************************)
EXTENDS Integers, Sequences, FiniteSets, TLC

VARIABLES
    \* ---- Employee collection (shared by both settlement triggers)
    balance,         \* [EmployeeIds -> Int]  Employee.balance
    openingBalance,  \* the balances the run started from (never written)
    \* ---- deductEmployeeBalanceForTask
    histCount,       \* [PayoutKeys -> Nat]  BalanceHistory lines per (employee,user,task)
    payoutCount,     \* [PayoutKeys -> Nat]  Payout documents per (employee,user,task)
    dPc,             \* [DSlots -> position of the request]
    dReq,            \* [DSlots -> the validated request, or NoReq]
    dPend,           \* [DSlots -> writes made inside the open transaction]
    dErr,            \* [DSlots -> error thrown inside the try block, or "none"]
    dResp,           \* [DSlots -> response sent, or "none"]
    \* ---- setEntryStatus
    entryStatus,     \* [EntryIds -> Pending | Approved | Rejected]  Entry.status
    sPc,             \* [SSlots -> position of the request]
    sReq,            \* [SSlots -> the request, or NoReq]
    sSeen,           \* [SSlots -> Entry.status read by Entry.findOne]
    sResp,           \* [SSlots -> response sent, or "none"]
    \* ---- the verified decision of createUserEntry
    ruleIn,          \* link rules and what the evidence extractor returned
    ruleOut,         \* the decision computed from ruleIn, or NoDecision
    \* ---- createUserEntry, permalink/API generation
    userChannel,     \* [UserIds -> User.ytChannelId, or Null]
    screenshots,     \* the screenshots collection, in insertion order
    entries,         \* the type-1 documents of the entries collection
    submissions,     \* requests received so far
    ePc,             \* [Handlers -> position of the request]
    eReq,            \* [Handlers -> the locals of the request, or NoEntryReq]
    eErr,            \* [Handlers -> error caught around the screenshot write]
    eResp,           \* [Handlers -> response sent, or NoResp]
    listed,          \* history: <<linkId, id, userId>> a verified document listed
    \* ---- createLink
    linkDocs,        \* the links collection, in insertion order
    linkReq,         \* body of the last createLink request, or NoLinkReq
    linkResp,        \* response to the last createLink request
    \* ---- hexHamming
    hamIn,           \* the two hex strings compared
    hamOut,          \* the distances computed, or NoHamming
    \* ---- createUserEntry, image generations
    imgShots,        \* the screenshots collection, in insertion order
    imgEntries,      \* the type-1 documents of the entries collection
    imgPc,           \* [ImgHandlers -> position of the request]
    imgReq,          \* [ImgHandlers -> the locals of the request, or NoImgReq]
    imgResp,         \* [ImgHandlers -> response sent, or NoImgResp]
    imgCount,        \* requests received so far
    \* ---- callVisionFast
    visIn,           \* the image part and the AGGRESSIVE_RACE setting
    visPc,           \* sequential branch: the attempt to make next, 0 when none
    visRace,         \* racing branch: state of the primary chain and the fallback
    visCalls,        \* the tryOnce calls that have ended, in order
    visOut,          \* what callVisionFast returned or threw, or NoVision
    \* ---- extractEmailsAndHandlesBatch
    cache,           \* CACHE: entries { key, ts, data } in insertion order
    cacheNow,        \* Date.now(), in ms since the process started
    contacts,        \* the EmailContact collection, in insertion order
    xTask,           \* the file being processed and its locals, or XIdle
    xResult,         \* the item last pushed to the response, or NoXResult
    xCount,          \* files received so far
    \* ---- fix-indexes
    fxArgs,          \* process.argv: the --apply and --dedupe flags
    fxDb,            \* the entries and screenshots collections and their indexes
    fxPc,            \* position of the script, "idle" between runs
    fxRun,           \* runs of the script that have ended
    fxUuid,          \* uuidv4() values handed out so far
    fxSnap,          \* the database as the first run left it
    \* ---- employee entries
    acctBalance,     \* Employee.balance of e1
    acctOpening,     \* the balance the run started from (never written)
    acctEntry,       \* the type-0 Entry: exists, amount, status
    acctResp,        \* the response last sent
    acctCount,       \* requests answered so far
    \* ---- analyzeBundle
    ocrIn,           \* the lines ocrLines read off the images, and detectLike's answer
    ocrOut           \* what analyzeBundle returned, or NoOcrResult

settleVars == <<balance, openingBalance>>
deductVars == <<histCount, payoutCount, dPc, dReq, dPend, dErr, dResp>>
statusVars == <<entryStatus, sPc, sReq, sSeen, sResp>>
ruleVars == <<ruleIn, ruleOut>>
entryVars ==
    <<userChannel, screenshots, entries, submissions, ePc, eReq, eErr, eResp,
      listed>>
linkVars == <<linkDocs, linkReq, linkResp>>
hamVars == <<hamIn, hamOut>>
baseVars == <<settleVars, deductVars, statusVars, ruleVars, entryVars, linkVars>>
imgVars == <<imgShots, imgEntries, imgPc, imgReq, imgResp, imgCount>>
visVars == <<visIn, visPc, visRace, visCalls, visOut>>
cacheVars == <<cache, cacheNow, contacts, xTask, xResult, xCount>>
fixVars == <<fxArgs, fxDb, fxPc, fxRun, fxUuid, fxSnap>>
acctVars == <<acctBalance, acctOpening, acctEntry, acctResp, acctCount>>
ocrVars == <<ocrIn, ocrOut>>
toolVars == <<hamVars, imgVars, visVars, cacheVars, fixVars, acctVars,
                 ocrVars>>
vars == <<baseVars, toolVars>>

(***************************************************************************)
(* Bounds of the model                                                     *)
(***************************************************************************)
MaxDeductRequests == 2
MaxStatusRequests == 2
MaxBalance == 5
MaxCount == 3

DSlots == 1..MaxDeductRequests
SSlots == 1..MaxStatusRequests

NoReq == [none |-> TRUE]

(***************************************************************************)
(* Collections that the settlement triggers only read                      *)
(***************************************************************************)
\* Employee documents that exist; "e0" is an employeeId no document has.
EmployeeIds == {"e1"}
ReqEmployeeIds == {"e1", "e0"}
\* User documents that exist; "u0" is a userId no document has.
UserIds == {"u1", "u2"}
ReqUserIds == {"u1", "u2", "u0"}
\* EmailTask documents: amountPerPerson; "t0" carries amountPerPerson 0,
\* "tn" is a taskId no document has.
TaskAmount == [t1 |-> 2, t2 |-> 3, t0 |-> 0]
TaskIds == DOMAIN TaskAmount
ReqTaskIds == TaskIds \cup {"tn"}

PayoutKeys == ReqEmployeeIds \X UserIds \X TaskIds
KeyOf(q) == <<q.employeeId, q.userId, q.taskId>>

RECURSIVE SumOver(_, _)
SumOver(S, f) ==
    IF S = {} THEN 0
    ELSE LET x == CHOOSE y \in S : TRUE IN f[x] + SumOver(S \ {x}, f)

\* Total of the payouts recorded against employee e.
PaidOut(e, pc) ==
    SumOver({k \in PayoutKeys : k[1] = e},
            [k \in PayoutKeys |-> TaskAmount[k[3]] * pc[k]])

(***************************************************************************)
(* deductEmployeeBalanceForTask                                            *)
(***************************************************************************)
\* Request validation up to the user lookup: the response, or "ok".
ValidateDeduct(e, u, t) ==
    IF t \notin TaskIds THEN "TaskNotFound"
    ELSE IF TaskAmount[t] <= 0 THEN "InvalidAmount"
    ELSE IF u \notin UserIds THEN "UserNotFound"
    ELSE "ok"

\* Payout.findOne({ employeeId, userId, taskId })
PayoutFindOneNever(k) == FALSE
PayoutFindOne(k) == payoutCount[k] > 0

\* The filter of Employee.findOneAndUpdate: { employeeId, balance: { $gte: amount } }
BalanceFilterNoGte(e, amount) == e \in EmployeeIds
BalanceFilter(e, amount) == e \in EmployeeIds /\ balance[e] >= amount

\* Employee.exists({ employeeId }) after the update matched nothing
EmployeeExistsAlways(e) == TRUE
EmployeeExists(e) == e \in EmployeeIds

\* The unique index (employeeId, userId, taskId) of Payout: may k be inserted?
PayoutUniqueIndex(k) == payoutCount[k] = 0

\* The catch block: the response for an error thrown inside the try block.
CatchResponseRethrow(err) ==
    IF err = "EMPLOYEE_NOT_FOUND" THEN "EmployeeNotFound"
    ELSE IF err = "INSUFFICIENT_FUNDS" THEN "InsufficientBalance"
    ELSE "Error"
CatchResponse(err) ==
    IF err = "E11000" THEN "AlreadyPaidRace"
    ELSE IF err = "EMPLOYEE_NOT_FOUND" THEN "EmployeeNotFound"
    ELSE IF err = "INSUFFICIENT_FUNDS" THEN "InsufficientBalance"
    ELSE "Error"

\* A transaction holds the write on employee e from its update to its end.
InTxn(r) == dPc[r] \in {"hist", "payout", "commit"}
EmployeeLocked(e) == \E r \in DSlots : InTxn(r) /\ dReq[r].employeeId = e

\* The committed collections after the transaction of r ends with the writes
\* in `applied` made durable.
ApplyWrites(r, applied) ==
    LET q == dReq[r]
        k == KeyOf(q)
        amount == TaskAmount[q.taskId]
    IN /\ balance' = IF "dec" \in applied
                       THEN [balance EXCEPT ![q.employeeId] = @ - amount]
                       ELSE balance
       /\ histCount' = IF "hist" \in applied
                         THEN [histCount EXCEPT ![k] = @ + 1] ELSE histCount
       /\ payoutCount' = IF "payout" \in applied
                           THEN [payoutCount EXCEPT ![k] = @ + 1] ELSE payoutCount

\* session.withTransaction: the callback returned, the transaction commits.
CommitTransaction(r) == ApplyWrites(r, dPend[r])

\* session.withTransaction: the callback threw, the transaction aborts and
\* every write made with { session } is discarded.
AbortTransactionKeepDecrement(r) == ApplyWrites(r, dPend[r] \cap {"dec"})
AbortTransaction(r) == ApplyWrites(r, {})

\* The request leaves the try block with error err.
Throw(r, err) ==
    /\ dErr' = [dErr EXCEPT ![r] = err]
    /\ dResp' = [dResp EXCEPT ![r] = CatchResponse(err)]
    /\ dPc' = [dPc EXCEPT ![r] = "done"]
    /\ dPend' = [dPend EXCEPT ![r] = {}]

\* Validation, Payout.findOne short-circuit, session start.
DeductStart(r) ==
    /\ dPc[r] = "idle"
    /\ \E e \in ReqEmployeeIds, u \in ReqUserIds, t \in ReqTaskIds :
         LET v == ValidateDeduct(e, u, t)
             q == [employeeId |-> e, userId |-> u, taskId |-> t]
         IN IF v # "ok"
            THEN /\ dResp' = [dResp EXCEPT ![r] = v]
                 /\ dPc' = [dPc EXCEPT ![r] = "done"]
                 /\ UNCHANGED dReq
            ELSE /\ dReq' = [dReq EXCEPT ![r] = q]
                 /\ IF PayoutFindOne(KeyOf(q))
                    THEN /\ dResp' = [dResp EXCEPT ![r] = "AlreadyPaid"]
                         /\ dPc' = [dPc EXCEPT ![r] = "done"]
                    ELSE /\ dPc' = [dPc EXCEPT ![r] = "txn"]
                         /\ UNCHANGED dResp
    /\ UNCHANGED <<settleVars, histCount, payoutCount, dPend, dErr, statusVars, ruleVars, entryVars, linkVars, toolVars>>

\* Employee.findOneAndUpdate inside the transaction.  A write conflict with
\* another open transaction on the same employee is transient: withTransaction
\* runs the callback again, so the step waits for the other transaction.
TxnUpdateEmployee(r) ==
    /\ dPc[r] = "txn"
    /\ ~EmployeeLocked(dReq[r].employeeId)
    /\ LET e == dReq[r].employeeId
           amount == TaskAmount[dReq[r].taskId]
       IN IF BalanceFilter(e, amount)
          THEN /\ dPend' = [dPend EXCEPT ![r] = {"dec"}]
               /\ dPc' = [dPc EXCEPT ![r] = "hist"]
               /\ UNCHANGED <<dErr, dResp>>
          ELSE IF ~EmployeeExists(e)
               THEN Throw(r, "EMPLOYEE_NOT_FOUND")
               ELSE Throw(r, "INSUFFICIENT_FUNDS")
    /\ UNCHANGED <<settleVars, histCount, payoutCount, dReq, statusVars, ruleVars, entryVars, linkVars, toolVars>>

\* BalanceHistory.create([...], { session })
TxnBalanceHistory(r) ==
    /\ dPc[r] = "hist"
    /\ dPend' = [dPend EXCEPT ![r] = @ \cup {"hist"}]
    /\ dPc' = [dPc EXCEPT ![r] = "payout"]
    /\ UNCHANGED <<settleVars, histCount, payoutCount, dReq, dErr, dResp, statusVars, ruleVars, entryVars, linkVars, toolVars>>

\* Payout.create([...], { session }): the unique index decides.
TxnPayoutCreate(r) ==
    /\ dPc[r] = "payout"
    /\ IF PayoutUniqueIndex(KeyOf(dReq[r]))
       THEN /\ dPend' = [dPend EXCEPT ![r] = @ \cup {"payout"}]
            /\ dPc' = [dPc EXCEPT ![r] = "commit"]
            /\ UNCHANGED <<balance, histCount, payoutCount, dErr, dResp>>
       ELSE /\ AbortTransaction(r)
            /\ Throw(r, "E11000")
    /\ UNCHANGED <<openingBalance, dReq, statusVars, ruleVars, entryVars, linkVars, toolVars>>

\* The callback returned: commit, then the success response.
TxnCommit(r) ==
    /\ dPc[r] = "commit"
    /\ CommitTransaction(r)
    /\ dPend' = [dPend EXCEPT ![r] = {}]
    /\ dResp' = [dResp EXCEPT ![r] = "Deducted"]
    /\ dPc' = [dPc EXCEPT ![r] = "done"]
    /\ UNCHANGED <<openingBalance, dReq, dErr, statusVars, ruleVars, entryVars, linkVars, toolVars>>

\* A storage failure inside the transaction after the balance decrement
\* (a write that throws, a lost connection): the transaction aborts and the
\* error is rethrown by the catch block.
TxnFail(r) ==
    /\ InTxn(r)
    /\ AbortTransaction(r)
    /\ Throw(r, "STORAGE")
    /\ UNCHANGED <<openingBalance, dReq, statusVars, ruleVars, entryVars, linkVars, toolVars>>

DeductInit ==
    /\ histCount = [k \in PayoutKeys |-> 0]
    /\ payoutCount = [k \in PayoutKeys |-> 0]
    /\ dPc = [r \in DSlots |-> "idle"]
    /\ dReq = [r \in DSlots |-> NoReq]
    /\ dPend = [r \in DSlots |-> {}]
    /\ dErr = [r \in DSlots |-> "none"]
    /\ dResp = [r \in DSlots |-> "none"]

SettleInit ==
    /\ balance \in [EmployeeIds -> 0..MaxBalance]
    /\ openingBalance = balance


(***************************************************************************)
(* setEntryStatus (the same steps in both entryController generations)     *)
(***************************************************************************)
Null == "null"
\* Entry.status: null while pending, 1 approved, 0 rejected.
Pending == "pending"
Approved == "approved"
Rejected == "rejected"
\* Number(approve) as the status it asks for.
NewStatus(a) == IF a = 1 THEN Approved ELSE Rejected

\* Entry documents: n1 an employee entry, n2 a user entry under the same
\* employee, n3 a user entry under an employeeId no document has, n4 an
\* employee entry without employeeId.  "nx" is an entryId no document has.
EntryDocs ==
    [n1 |-> [type |-> 0, employeeId |-> "e1", amount |-> 2,
             worksUnder |-> Null, totalAmount |-> Null],
     n2 |-> [type |-> 1, employeeId |-> Null, amount |-> Null,
             worksUnder |-> "e1", totalAmount |-> 3],
     n3 |-> [type |-> 1, employeeId |-> Null, amount |-> Null,
             worksUnder |-> "e0", totalAmount |-> 1],
     n4 |-> [type |-> 0, employeeId |-> Null, amount |-> 1,
             worksUnder |-> Null, totalAmount |-> Null]]
EntryIds == DOMAIN EntryDocs
ReqEntryIds == EntryIds \cup {"nx"}
\* Values of req.body.approve; Number(approve) of 2 is neither 0 nor 1.
ApproveValues == {0, 1, 2}

\* The employee to debit: employeeId of a type-0 entry, worksUnder of a type-1.
TargetEmployee(doc) ==
    IF doc.type = 0 /\ doc.employeeId # Null THEN doc.employeeId
    ELSE IF doc.type = 1 /\ doc.worksUnder # Null THEN doc.worksUnder
    ELSE Null

\* The amount to debit: amount of a type-0 entry, totalAmount of a type-1
\* (0 when neither branch is taken, and then there is no target employee).
Deduction(doc) ==
    IF doc.type = 0 /\ doc.employeeId # Null THEN doc.amount
    ELSE IF doc.type = 1 /\ doc.worksUnder # Null THEN doc.totalAmount
    ELSE 0

\* if (!targetEmpId || deduction is not a number)
CannotDetermine(doc) == TargetEmployee(doc) = Null

\* if (entry.status === newStatus): the transition is already resolved.
AlreadyResolvedNever(status, newStatus) == FALSE
AlreadyResolved(status, newStatus) == status = newStatus

\* The checks on the employee read by Employee.findOne: the response, or "ok".
CheckEmployee(e, deduction) ==
    IF e \notin EmployeeIds THEN "EmployeeNotFound"
    ELSE IF balance[e] < deduction THEN "InsufficientBalance"
    ELSE "ok"

\* The filter of Entry.findOneAndUpdate: { entryId, status: { $ne: newStatus } }
StatusFilter(status, newStatus) == status # newStatus

AlreadyMessage(a) ==
    IF a = 1 THEN "AlreadyApproved" ELSE "AlreadyRejected"

SRespond(r, resp) ==
    /\ sResp' = [sResp EXCEPT ![r] = resp]
    /\ sPc' = [sPc EXCEPT ![r] = "done"]

\* Validation, Entry.findOne, the already-resolved return, and for an
\* approval the choice of employee and deduction.
StatusStart(r) ==
    /\ sPc[r] = "idle"
    /\ \E n \in ReqEntryIds, a \in ApproveValues :
         IF a \notin {0, 1}
         THEN SRespond(r, "ValidationError") /\ UNCHANGED <<sReq, sSeen>>
         ELSE IF n \notin EntryIds
         THEN SRespond(r, "EntryNotFound") /\ UNCHANGED <<sReq, sSeen>>
         ELSE /\ sReq' = [sReq EXCEPT ![r] = [entryId |-> n, approve |-> a]]
              /\ sSeen' = [sSeen EXCEPT ![r] = entryStatus[n]]
              /\ IF AlreadyResolved(entryStatus[n], NewStatus(a))
                 THEN SRespond(r, AlreadyMessage(a))
                 ELSE IF a = 1 /\ CannotDetermine(EntryDocs[n])
                 THEN SRespond(r, "InvalidDeduction")
                 ELSE /\ sPc' = [sPc EXCEPT ![r] = IF a = 1 THEN "findEmp" ELSE "update"]
                      /\ UNCHANGED sResp
    /\ UNCHANGED <<settleVars, entryStatus, deductVars, ruleVars, entryVars, linkVars, toolVars>>

\* Employee.findOne and the two checks on what it returned.
StatusFindEmployee(r) ==
    /\ sPc[r] = "findEmp"
    /\ LET doc == EntryDocs[sReq[r].entryId]
           c == CheckEmployee(TargetEmployee(doc), Deduction(doc))
       IN IF c # "ok"
          THEN SRespond(r, c)
          ELSE sPc' = [sPc EXCEPT ![r] = "debit"] /\ UNCHANGED sResp
    /\ UNCHANGED <<settleVars, entryStatus, sReq, sSeen, deductVars, ruleVars, entryVars, linkVars, toolVars>>

\* Employee.updateOne({ employeeId }, { $inc: { balance: -deduction } })
StatusDebit(r) ==
    /\ sPc[r] = "debit"
    /\ LET doc == EntryDocs[sReq[r].entryId]
       IN balance' = [balance EXCEPT ![TargetEmployee(doc)] = @ - Deduction(doc)]
    /\ sPc' = [sPc EXCEPT ![r] = "update"]
    /\ UNCHANGED <<openingBalance, entryStatus, sReq, sSeen, sResp, deductVars, ruleVars, entryVars, linkVars, toolVars>>

\* Entry.findOneAndUpdate with the $ne filter; no match is answered "Already".
StatusUpdate(r) ==
    /\ sPc[r] = "update"
    /\ LET n == sReq[r].entryId
           a == sReq[r].approve
       IN IF StatusFilter(entryStatus[n], NewStatus(a))
          THEN /\ entryStatus' = [entryStatus EXCEPT ![n] = NewStatus(a)]
               /\ IF a = 1
                  THEN sPc' = [sPc EXCEPT ![r] = "readBalance"] /\ UNCHANGED sResp
                  ELSE SRespond(r, "Rejected")
          ELSE /\ SRespond(r, AlreadyMessage(a))
               /\ UNCHANGED entryStatus
    /\ UNCHANGED <<settleVars, sReq, sSeen, deductVars, ruleVars, entryVars, linkVars, toolVars>>

\* Employee.findOne(...).select("balance") for the payload, then the response.
StatusReadBalance(r) ==
    /\ sPc[r] = "readBalance"
    /\ SRespond(r, "Approved")
    /\ UNCHANGED <<settleVars, entryStatus, sReq, sSeen, deductVars, ruleVars, entryVars, linkVars, toolVars>>

StatusInit ==
    /\ entryStatus = [n \in EntryIds |-> Pending]
    /\ sPc = [r \in SSlots |-> "idle"]
    /\ sReq = [r \in SSlots |-> NoReq]
    /\ sSeen = [r \in SSlots |-> Pending]
    /\ sResp = [r \in SSlots |-> "none"]

(***************************************************************************)
(* The verified decision of createUserEntry                                *)
(***************************************************************************)
NoDecision == [decided |-> FALSE]

\* Link rules after clamp02 / toBool.
RuleSets ==
    [min_comments : 0..2, min_replies : 0..2, require_like : BOOLEAN]

\* analysis.user_id as the analyzer may return it: null, blank, a handle.
HandleValues == {Null, "  ", "@alice"}

\* The rules object the analyzer may echo back: absent (Null) or any rules.
EchoValues == {<<>>} \cup {<<x>> : x \in RuleSets}

RuleInputs ==
    [ minComments : 0..2, minReplies : 0..2, requireLike : BOOLEAN,
      liked : BOOLEAN,
      commentCount : 0..MaxCount, replyCount : 0..MaxCount,
      handle : HandleValues,          \* Flask generation: analysis.user_id
      analyzerVerified : BOOLEAN,     \* Flask generation: analysis.verified
      echo : EchoValues,              \* Flask generation: analysis.rules
      reasons : 0..1 ]                \* API generation: reasons.length

\* if (minComments === 0 && minReplies === 0) return INVALID_RULES
InvalidRules(minC, minR) == minC = 0 /\ minR = 0

\* analysis?.rules || { min_comments, min_replies, require_like } of the link
EffectiveRules(in) ==
    IF in.echo # <<>> THEN in.echo[1]
    ELSE [min_comments |-> in.minComments, min_replies |-> in.minReplies,
          require_like |-> in.requireLike]

\* typeof user_id === 'string' && user_id.trim().length > 0
HasHandle(h) == h # Null /\ h # "  "

\* comment.length >= rules.min_comments && replies.length >= rules.min_replies
MeetsCounts(c, r, minC, minR) == c >= minC /\ r >= minR

\* rules.require_like ? !!liked : true
MeetsLike(requireLike, liked) == IF requireLike THEN liked ELSE TRUE

\* Flask generation: analysisPayload.verified as the server recomputes it.
VerifiedFlask(in) ==
    LET rules == EffectiveRules(in)
    IN /\ HasHandle(in.handle)
       /\ MeetsCounts(in.commentCount, in.replyCount,
                      rules.min_comments, rules.min_replies)
       /\ MeetsLike(rules.require_like, in.liked)

\* API generation: likedAssumed = likeRequired ? true : false
LikedAssumed(likeRequired) == IF likeRequired THEN TRUE ELSE FALSE

\* API generation: the verified flag.
VerifiedApi(reasons, gotComments, gotReplies, minC, minR, likeRequired) ==
    /\ reasons = 0
    /\ gotComments >= minC
    /\ gotReplies >= minR
    /\ (~likeRequired \/ LikedAssumed(likeRequired) = TRUE)

DecideFlask ==
    /\ ruleOut = NoDecision
    /\ ~InvalidRules(ruleIn.minComments, ruleIn.minReplies)
    /\ ruleOut' = [decided |-> TRUE, gen |-> "flask",
                   verified |-> VerifiedFlask(ruleIn),
                   liked |-> ruleIn.liked]
    /\ UNCHANGED <<ruleIn, settleVars, deductVars, statusVars, entryVars, linkVars, toolVars>>

DecideApi ==
    /\ ruleOut = NoDecision
    /\ ~InvalidRules(ruleIn.minComments, ruleIn.minReplies)
    /\ ruleOut' = [decided |-> TRUE, gen |-> "api",
                   verified |-> VerifiedApi(ruleIn.reasons, ruleIn.commentCount,
                                            ruleIn.replyCount, ruleIn.minComments,
                                            ruleIn.minReplies, ruleIn.requireLike),
                   liked |-> LikedAssumed(ruleIn.requireLike)]
    /\ UNCHANGED <<ruleIn, settleVars, deductVars, statusVars, entryVars, linkVars, toolVars>>

\* The request is answered INVALID_RULES before any decision.
RejectRules ==
    /\ ruleOut = NoDecision
    /\ InvalidRules(ruleIn.minComments, ruleIn.minReplies)
    /\ ruleOut' = [decided |-> FALSE, code |-> "INVALID_RULES"]
    /\ UNCHANGED <<ruleIn, settleVars, deductVars, statusVars, entryVars, linkVars, toolVars>>

RulesIdle ==
    /\ ruleIn = [decided |-> FALSE]
    /\ ruleOut = NoDecision

RulesInit ==
    /\ ruleIn \in RuleInputs
    /\ ruleOut = NoDecision

RulesNext == DecideFlask \/ DecideApi \/ RejectRules

(***************************************************************************)
(* createUserEntry, permalink/API generation                               *)
(***************************************************************************)
MaxSubmissions == 2
MaxRaceSubmissions == 3

\* Request handlers that may be in flight at the same moment.
Handlers == {"h1", "h2"}

NoEntryReq == [none |-> TRUE]
NoResp == [code |-> "none"]
\* No error was caught around the screenshot write.
NoError == [code |-> 0, keyPattern |-> "none"]

\* const YT_MAX_PAGES = Number(process.env.YT_MAX_PAGES || 5)
YT_MAX_PAGES == 5

\* Index key MongoDB stores for an empty array.
Undefined == "undefined"

\* ---- the YouTube side: comment threads and the replies under them
Threads ==
    [ c1 |-> [videoId |-> "v1", author |-> "UC1"],
      c2 |-> [videoId |-> "v1", author |-> "UC1"],
      c3 |-> [videoId |-> "v1", author |-> "UC2"],
      c4 |-> [videoId |-> "v1", author |-> "UC9"],
      c6 |-> [videoId |-> "v2", author |-> "UC1"] ]
ThreadIds == DOMAIN Threads

Reply(id, author) == [id |-> id, author |-> author]

\* comments.list answers page by page; a page carries a nextPageToken while
\* more pages follow.
ReplyPages(parentId) ==
    IF parentId = "c4"
    THEN << {Reply("c4.a", "UC1"), Reply("c4.b", "UC2"), Reply("c4.c", "UC1")},
            {Reply("c4.f1", "UC9")}, {Reply("c4.f2", "UC9")},
            {Reply("c4.f3", "UC9")}, {Reply("c4.f4", "UC9")},
            {Reply("c4.z", "UC1")} >>
    ELSE IF parentId = "c1"
    THEN << {Reply("c1.s", "UC1")} >>
    ELSE IF parentId = "c3"
    THEN << {Reply("c3.a", "UC1")} >>
    ELSE << >>

\* ---- permalinks: the v and lc query parameters of the URL
Permalink(v, lc) == [v |-> v, lc |-> lc]
\* another URL of the same comment: one more query parameter, or the youtu.be
\* form of the address
PermalinkAlso(v, lc, other) == [v |-> v, lc |-> lc, other |-> other]

\* lc.split("."): parent id and reply key of the lc values in use
LcSplit ==
    [ c0 |-> <<"c0">>, c1 |-> <<"c1">>, c2 |-> <<"c2">>, c3 |-> <<"c3">>,
      c6 |-> <<"c6">> ] @@
    ( "c4.a" :> <<"c4", "a">> @@ "c4.b" :> <<"c4", "b">> @@
      "c4.c" :> <<"c4", "c">> @@
      "c4.z" :> <<"c4", "z">> @@ "c1.s" :> <<"c1", "s">> @@
      "c3.a" :> <<"c3", "a">> )

CanParse(url) == url.v # Null /\ url.lc # Null

parseCommentPermalink(url) ==
    LET parts == LcSplit[url.lc]
    IN [ permalink |-> url, videoId |-> url.v, lc |-> url.lc,
         parentId |-> parts[1],
         replyKey |-> IF Len(parts) > 1 THEN parts[2] ELSE Null,
         isReply |-> Len(parts) > 1 ]

\* ---- the proof bundles a request may carry
Bundles ==
    [ b1 |-> [commentLinks |-> <<Permalink("v1", "c1")>>,
              replyLinks |-> <<Permalink("v1", "c4.a")>>, textOk |-> TRUE],
      b2 |-> [commentLinks |-> <<Permalink("v1", "c2")>>,
              replyLinks |-> <<Permalink("v1", "c4.a")>>, textOk |-> TRUE],
      b3 |-> [commentLinks |-> <<Permalink("v1", "c3")>>,
              replyLinks |-> <<Permalink("v1", "c4.b")>>, textOk |-> TRUE],
      \* comment and reply written by different channels
      b4 |-> [commentLinks |-> <<Permalink("v1", "c1")>>,
              replyLinks |-> <<Permalink("v1", "c4.b")>>, textOk |-> TRUE],
      \* reply under the author's own comment
      b5 |-> [commentLinks |-> <<Permalink("v1", "c2")>>,
              replyLinks |-> <<Permalink("v1", "c1.s")>>, textOk |-> TRUE],
      \* reply that sits on the sixth page of its thread
      b6 |-> [commentLinks |-> <<Permalink("v1", "c2")>>,
              replyLinks |-> <<Permalink("v1", "c4.z")>>, textOk |-> TRUE],
      \* declared reply text that differs from the text on YouTube
      b7 |-> [commentLinks |-> <<Permalink("v1", "c1")>>,
              replyLinks |-> <<Permalink("v1", "c4.a")>>, textOk |-> FALSE],
      \* the comment of b1 with another reply of the same channel
      b9 |-> [commentLinks |-> <<Permalink("v1", "c1")>>,
              replyLinks |-> <<Permalink("v1", "c4.c")>>, textOk |-> TRUE],
      \* a comment of one channel with a reply another channel wrote under
      \* its own comment
      b10 |-> [commentLinks |-> <<Permalink("v1", "c3")>>,
               replyLinks |-> <<Permalink("v1", "c1.s")>>, textOk |-> TRUE],
      \* a thread YouTube does not know
      b8 |-> [commentLinks |-> <<Permalink("v1", "c0")>>,
              replyLinks |-> <<Permalink("v1", "c4.a")>>, textOk |-> TRUE],
      \* malformed inputs
      x1 |-> [commentLinks |-> << >>, replyLinks |-> << >>, textOk |-> TRUE],
      x2 |-> [commentLinks |-> <<Permalink("v1", Null)>>,
              replyLinks |-> <<Permalink("v1", "c4.a")>>, textOk |-> TRUE],
      x3 |-> [commentLinks |-> <<Permalink("v1", "c4.a")>>,
              replyLinks |-> <<Permalink("v1", "c4.a")>>, textOk |-> TRUE],
      x4 |-> [commentLinks |-> <<Permalink("v1", "c1")>>,
              replyLinks |-> <<Permalink("v1", "c2")>>, textOk |-> TRUE],
      x5 |-> [commentLinks |-> <<Permalink("v2", "c6")>>,
              replyLinks |-> <<Permalink("v1", "c4.a")>>, textOk |-> TRUE],
      \* proofs of two comments and two replies
      d1 |-> [commentLinks |-> <<Permalink("v1", "c1"), Permalink("v1", "c2")>>,
              replyLinks |-> <<Permalink("v1", "c4.a"), Permalink("v1", "c3.a")>>,
              textOk |-> TRUE],
      \* two URLs of one comment
      d2 |-> [commentLinks |-> <<Permalink("v1", "c1"),
                                 PermalinkAlso("v1", "c1", "feature=share")>>,
              replyLinks |-> <<Permalink("v1", "c4.a"), Permalink("v1", "c3.a")>>,
              textOk |-> TRUE],
      \* two URLs of one reply
      d3 |-> [commentLinks |-> <<Permalink("v1", "c1"), Permalink("v1", "c2")>>,
              replyLinks |-> <<Permalink("v1", "c4.a"),
                               PermalinkAlso("v1", "c4.a", "feature=share")>>,
              textOk |-> TRUE],
      \* two replies under one comment
      d4 |-> [commentLinks |-> <<Permalink("v1", "c1"), Permalink("v1", "c2")>>,
              replyLinks |-> <<Permalink("v1", "c4.a"), Permalink("v1", "c4.c")>>,
              textOk |-> TRUE],
      \* the same comment URL twice
      d5 |-> [commentLinks |-> <<Permalink("v1", "c1"), Permalink("v1", "c1")>>,
              replyLinks |-> <<Permalink("v1", "c4.a"), Permalink("v1", "c3.a")>>,
              textOk |-> TRUE] ]
\* the proofs meant for a link that asks for two comments and two replies
PairBundles == {"d1", "d2", "d3", "d4", "d5"}
BundleNames == DOMAIN Bundles \ PairBundles

\* ---- the Link collection; a rule is <<n>> when stored, <<>> when missing
Links ==
    [ L1 |-> [video |-> "v1", minComments |-> <<1>>, minReplies |-> <<1>>,
              requireLike |-> TRUE, amount |-> 2],
      L2 |-> [video |-> Null, minComments |-> <<1>>, minReplies |-> <<0>>,
              requireLike |-> FALSE, amount |-> 1],
      L3 |-> [video |-> "v1", minComments |-> <<2>>, minReplies |-> <<2>>,
              requireLike |-> TRUE, amount |-> 1] ]
LinkIds == DOMAIN Links
\* the link that asks for two comments and two replies
PairLinks == {"L3"}
ReqLinkIds == (LinkIds \ PairLinks) \cup {"Lx", "bad"}

\* How the name / worksUnder / upiId fields of the body may look.
FieldCases == {"ok", "missing", "badUpi", "otherUpi"}

Max2(a, b) == IF a > b THEN a ELSE b
Min2(a, b) == IF a < b THEN a ELSE b

clamp02(v, def) == IF v = << >> THEN def ELSE Max2(0, Min2(2, v[1]))

RECURSIVE uniq(_)
uniq(arr) ==
    IF arr = << >> THEN << >>
    ELSE LET front == uniq(SubSeq(arr, 1, Len(arr) - 1))
             last == arr[Len(arr)]
         IN IF \E i \in DOMAIN front : front[i] = last
            THEN front ELSE Append(front, last)

Slice(arr, n) == SubSeq(arr, 1, Min2(n, Len(arr)))

Range(f) == {f[i] : i \in DOMAIN f}

MapParse(links) == [i \in DOMAIN links |-> parseCommentPermalink(links[i])]

\* campaignVideoId: from Link.title, else from the first permalink
CampaignVideoId(link, parsedComments, parsedReplies) ==
    IF link.video # Null THEN link.video
    ELSE IF parsedComments # << >> THEN parsedComments[1].videoId
    ELSE IF parsedReplies # << >> THEN parsedReplies[1].videoId
    ELSE Null

\* Everything createUserEntry checks before it calls YouTube; "ok" or the
\* code of the error response.
ValidateEntry(u, l, b, f) ==
    IF l = "bad" THEN "INVALID_OBJECT_ID"
    ELSE IF l \notin LinkIds THEN "LINK_NOT_FOUND"
    ELSE
      LET link == Links[l]
          minComments == clamp02(link.minComments, 2)
          minReplies == clamp02(link.minReplies, 2)
          cLinks == uniq(Bundles[b].commentLinks)
          rLinks == uniq(Bundles[b].replyLinks)
          cUsed == Slice(cLinks, minComments)
          rUsed == Slice(rLinks, minReplies)
          parsedComments == MapParse(cUsed)
          parsedReplies == MapParse(rUsed)
          campaignVideoId == CampaignVideoId(link, parsedComments, parsedReplies)
      IN IF minComments = 0 /\ minReplies = 0 THEN "INVALID_RULES"
         ELSE IF f = "missing" THEN "VALIDATION_ERROR"
         ELSE IF f = "badUpi" THEN "INVALID_UPI"
         ELSE IF u \notin UserIds THEN "USER_NOT_FOUND"
         ELSE IF f = "otherUpi" THEN "UPI_MISMATCH"
         ELSE IF Len(cLinks) < minComments THEN "NOT_ENOUGH_COMMENTS"
         ELSE IF Len(rLinks) < minReplies THEN "NOT_ENOUGH_REPLIES"
         ELSE IF \E x \in Range(cUsed) \cup Range(rUsed) : ~CanParse(x)
              THEN "INVALID_PERMALINK"
         ELSE IF \E x \in Range(parsedComments) : x.isReply
              THEN "COMMENT_LINK_MUST_BE_TOPLEVEL"
         ELSE IF \E x \in Range(parsedReplies) : ~x.isReply
              THEN "REPLY_LINK_MUST_BE_REPLY"
         ELSE IF campaignVideoId = Null THEN "INVALID_VIDEO_ID"
         ELSE IF \E x \in Range(parsedComments) \cup Range(parsedReplies) :
                    x.videoId # campaignVideoId
              THEN "WRONG_VIDEO"
         ELSE "ok"

ValidationStatus(code) ==
    IF code \in {"LINK_NOT_FOUND", "USER_NOT_FOUND"} THEN 404 ELSE 400

\* ---- verification against YouTube
NoEvidence ==
    [detected |-> Null, reasons |-> {}, actions |-> << >>,
     comments |-> << >>, replies |-> << >>, usedReplyParentIds |-> {}]

\* An element of the actions array.
Action(kind, commentId, parentId, author) ==
    [kind |-> kind, commentId |-> commentId, parentId |-> parentId,
     authorChannelId |-> author]

AddReason(st, tag) == [st EXCEPT !.reasons = @ \cup {tag}]

\* a detector that keeps the first channel and compares nothing
setDetectedChannelFirstWins(st, cid, tag) ==
    IF cid = Null THEN AddReason(st, tag)
    ELSE IF st.detected = Null THEN [st EXCEPT !.detected = cid]
    ELSE st

setDetectedChannel(st, cid, tag) ==
    IF cid = Null THEN AddReason(st, tag)
    ELSE IF st.detected = Null THEN [st EXCEPT !.detected = cid]
    ELSE IF st.detected # cid THEN AddReason(st, "MIXED_AUTHORS")
    ELSE st

VerifyComment(st, p, campaignVideoId) ==
    IF p.parentId \notin ThreadIds THEN AddReason(st, "COMMENT_NOT_FOUND")
    ELSE IF Threads[p.parentId].videoId # campaignVideoId
    THEN AddReason(st, "COMMENT_WRONG_VIDEO")
    ELSE IF Threads[p.parentId].author = Null
    THEN AddReason(st, "COMMENT_AUTHOR_MISSING")
    ELSE LET s2 == setDetectedChannel(st, Threads[p.parentId].author,
                                      "COMMENT_MISSING_AUTHOR_CHANNEL")
         IN [s2 EXCEPT !.comments = Append(@, p.parentId),
                       !.actions = Append(@, Action("comment", p.parentId, Null,
                                                    Threads[p.parentId].author))]

NotFound == [id |-> Null, author |-> Null]

\* The page loop over ytListRepliesByParent: pages 1..YT_MAX_PAGES, stopping
\* at the first hit or when no nextPageToken is returned.
\* The items of one page; a parent without replies answers one empty page.
PageItems(pages, page) == IF page <= Len(pages) THEN pages[page] ELSE {}

\* The page carries a nextPageToken.
HasNextPage(pages, page) == page < Len(pages)

\* A search that follows nextPageToken without a page limit.
RECURSIVE ReplySearchUnbounded(_, _, _)
ReplySearchUnbounded(pages, p, page) ==
    LET hits == {x \in PageItems(pages, page) :
                    x.id = p.lc \/ x.id = p.replyKey}
    IN IF hits # {} THEN [found |-> CHOOSE x \in hits : TRUE, calls |-> 1]
       ELSE IF ~HasNextPage(pages, page) THEN [found |-> NotFound, calls |-> 1]
       ELSE LET rest == ReplySearchUnbounded(pages, p, page + 1)
            IN [found |-> rest.found, calls |-> rest.calls + 1]

\* for (let page = 0; page < YT_MAX_PAGES; page++): what was found and how
\* many times ytListRepliesByParent was called.
RECURSIVE ReplySearch(_, _, _)
ReplySearch(pages, p, page) ==
    IF page > YT_MAX_PAGES THEN [found |-> NotFound, calls |-> 0]
    ELSE LET hits == {x \in PageItems(pages, page) :
                         x.id = p.lc \/ x.id = p.replyKey}
         IN IF hits # {} THEN [found |-> CHOOSE x \in hits : TRUE, calls |-> 1]
            ELSE IF ~HasNextPage(pages, page)
            THEN [found |-> NotFound, calls |-> 1]
            ELSE LET rest == ReplySearch(pages, p, page + 1)
                 IN [found |-> rest.found, calls |-> rest.calls + 1]

FindReply(pages, p, page) == ReplySearch(pages, p, page).found

\* if (parentAuthor && parentAuthor === replyAuthor)
ReplyToOwnCommentNever(parentAuthor, replyAuthor) == FALSE
ReplyToOwnComment(parentAuthor, replyAuthor) ==
    parentAuthor # Null /\ parentAuthor = replyAuthor

VerifyReply(st, p, campaignVideoId, textOk, apiFails) ==
    IF p.parentId \in st.usedReplyParentIds
    THEN AddReason(st, "REPLY_PARENT_DUPLICATE")
    ELSE IF p.parentId \notin ThreadIds
    THEN AddReason(st, "REPLY_PARENT_NOT_FOUND")
    ELSE IF Threads[p.parentId].videoId # campaignVideoId
    THEN AddReason(st, "REPLY_PARENT_WRONG_VIDEO")
    ELSE
      LET parentAuthor == Threads[p.parentId].author
          found == IF apiFails THEN NotFound
                   ELSE FindReply(ReplyPages(p.parentId), p, 1)
          s1 == IF apiFails THEN AddReason(st, "REPLY_API_ERROR") ELSE st
      IN IF found = NotFound THEN AddReason(s1, "REPLY_NOT_FOUND")
         ELSE IF found.id \in Range(s1.replies)
         THEN AddReason(s1, "REPLY_DUPLICATE_ID")
         ELSE IF found.author = Null
         THEN AddReason(s1, "REPLY_AUTHOR_MISSING")
         ELSE IF ReplyToOwnComment(parentAuthor, found.author)
         THEN AddReason(s1, "REPLY_TO_OWN_COMMENT_NOT_ALLOWED")
         ELSE LET s2 == setDetectedChannel(s1, found.author,
                                           "REPLY_MISSING_AUTHOR_CHANNEL")
              IN IF ~textOk THEN AddReason(s2, "REPLY_TEXT_MISMATCH")
                 ELSE [s2 EXCEPT !.replies = Append(@, found.id),
                                 !.usedReplyParentIds = @ \cup {p.parentId},
                                 !.actions = Append(@, Action("reply", found.id,
                                                p.parentId, found.author))]

RECURSIVE VerifyComments(_, _, _)
VerifyComments(st, parsed, campaignVideoId) ==
    IF parsed = << >> THEN st
    ELSE VerifyComments(VerifyComment(st, Head(parsed), campaignVideoId),
                        Tail(parsed), campaignVideoId)

RECURSIVE VerifyReplies(_, _, _, _, _)
VerifyReplies(st, parsed, campaignVideoId, textOk, apiFails) ==
    IF parsed = << >> THEN st
    ELSE VerifyReplies(
           VerifyReply(st, Head(parsed), campaignVideoId, textOk, apiFails),
           Tail(parsed), campaignVideoId, textOk, apiFails)

\* ---- the unique indexes of the screenshots and entries collections
IndexKeys(arr) == IF arr = {} THEN {Undefined} ELSE arr

\* screenshots { userId: 1, linkId: 1 } unique
ScreenshotUserLinkIndexAbsent(docs, d, self) == TRUE
ScreenshotUserLinkIndex(docs, d, self) ==
    \A i \in DOMAIN docs :
        i # self => ~(docs[i].userId = d.userId /\ docs[i].linkId = d.linkId)

\* screenshots { linkId: 1, commentIds: 1 } unique among verified documents
ScreenshotCommentIndex(docs, d, self) ==
    d.verified =>
      \A i \in DOMAIN docs :
        (i # self /\ docs[i].verified /\ docs[i].linkId = d.linkId)
          => IndexKeys(docs[i].commentIds) \cap IndexKeys(d.commentIds) = {}

\* screenshots { linkId: 1, replyIds: 1 } unique among verified documents
ScreenshotReplyIndex(docs, d, self) ==
    d.verified =>
      \A i \in DOMAIN docs :
        (i # self /\ docs[i].verified /\ docs[i].linkId = d.linkId)
          => IndexKeys(docs[i].replyIds) \cap IndexKeys(d.replyIds) = {}

\* The key patterns a write of d would be rejected on.
ViolatedIndexes(docs, d, self) ==
    (IF ScreenshotUserLinkIndex(docs, d, self) THEN {} ELSE {"userId_linkId"})
    \cup
    (IF ScreenshotCommentIndex(docs, d, self) THEN {} ELSE {"linkId_commentIds"})
    \cup
    (IF ScreenshotReplyIndex(docs, d, self) THEN {} ELSE {"linkId_replyIds"})

\* the catch block around the screenshot write, by e.keyPattern
DuplicateKeyCodeRaw(keyPattern) == "DUPLICATE_VERIFICATION"
DuplicateKeyCode(keyPattern) ==
    IF keyPattern = "userId_linkId" THEN "USER_ALREADY_VERIFIED"
    ELSE IF keyPattern = "linkId_commentIds" THEN "COMMENT_ALREADY_USED"
    ELSE IF keyPattern = "linkId_replyIds" THEN "REPLY_ALREADY_USED"
    ELSE "DUPLICATE_VERIFICATION"

\* entries { userId: 1, linkId: 1 } unique among type-1 entries
EntryUserLinkIndex(docs, d, self) ==
    \A i \in DOMAIN docs :
        i # self => ~(docs[i].userId = d.userId /\ docs[i].linkId = d.linkId)

\* Screenshot.findOne of the reuse check: a verified document of another user
\* on the link that lists one of the ids.
ReuseByOtherUserNone(docs, userId, linkId, usedCommentIds, usedReplyIds) == {}
ReuseByOtherUser(docs, userId, linkId, usedCommentIds, usedReplyIds) ==
    {i \in DOMAIN docs :
        /\ docs[i].linkId = linkId
        /\ docs[i].verified
        /\ docs[i].userId # userId
        /\ \/ docs[i].commentIds \cap usedCommentIds # {}
           \/ docs[i].replyIds \cap usedReplyIds # {}}

FindIndex(docs, userId, linkId) ==
    LET hits == {i \in DOMAIN docs :
                    docs[i].userId = userId /\ docs[i].linkId = linkId}
    IN IF hits = {} THEN 0 ELSE CHOOSE i \in hits : \A j \in hits : i <= j

\* ---- the handler, one action per await
ERespond(r, resp) ==
    /\ eResp' = [eResp EXCEPT ![r] = resp]
    /\ ePc' = [ePc EXCEPT ![r] = "idle"]
    /\ eReq' = [eReq EXCEPT ![r] = NoEntryReq]

EGoto(r, pc, req) ==
    /\ ePc' = [ePc EXCEPT ![r] = pc]
    /\ eReq' = [eReq EXCEPT ![r] = req]
    /\ eResp' = [eResp EXCEPT ![r] = NoResp]

\* Validation, Link.findById and User.findOne, for a request drawn from the
\* given users, links, bundles and body fields.
StartWith(r, users, links, bundles, fields, limit) ==
    /\ ePc[r] = "idle"
    /\ submissions < limit
    /\ submissions' = submissions + 1
    /\ eErr' = [eErr EXCEPT ![r] = NoError]
    /\ \E u \in users, l \in links, b \in bundles, f \in fields :
         LET code == ValidateEntry(u, l, b, f)
         IN IF code # "ok"
            THEN ERespond(r, [status |-> ValidationStatus(code), code |-> code])
            ELSE LET link == Links[l]
                     minC == clamp02(link.minComments, 2)
                     minR == clamp02(link.minReplies, 2)
                     pc == MapParse(Slice(uniq(Bundles[b].commentLinks), minC))
                     pr == MapParse(Slice(uniq(Bundles[b].replyLinks), minR))
                 IN EGoto(r, "threads",
                      [ userId |-> u, linkId |-> l, bundle |-> b,
                        existing |-> userChannel[u],
                        minComments |-> minC, minReplies |-> minR,
                        campaignVideoId |-> CampaignVideoId(link, pc, pr),
                        detected |-> Null, reasons |-> {}, actions |-> << >>,
                        gotComments |-> 0, gotReplies |-> 0,
                        commentIds |-> {}, replyIds |-> {},
                        found |-> 0, screenshotId |-> 0, entryFound |-> 0 ])
    /\ UNCHANGED <<userChannel, screenshots, entries, listed>>
    /\ UNCHANGED <<settleVars, deductVars, statusVars, ruleVars, linkVars, toolVars>>

\* Any request the handler can receive.
EntryStart(r) ==
    StartWith(r, ReqUserIds, ReqLinkIds, BundleNames, FieldCases, MaxSubmissions)

\* A well-formed request on link L1.
RaceBundles == {"b1", "b3", "b4", "b9"}

RaceStart(r) ==
    StartWith(r, UserIds, {"L1"}, RaceBundles, {"ok"}, MaxRaceSubmissions)

\* ytGetCommentThreadsByIds for all parent ids.
FetchThreads(r) ==
    /\ ePc[r] = "threads"
    /\ \/ ERespond(r, [status |-> 502, code |-> "YT_API_ERROR"])
       \/ EGoto(r, "verify", eReq[r])
    /\ UNCHANGED <<userChannel, screenshots, entries, submissions, eErr, listed>>
    /\ UNCHANGED <<settleVars, deductVars, statusVars, ruleVars, linkVars, toolVars>>

\* The comment loop and the reply loop with its calls of
\* ytListRepliesByParent, then the CHANNEL_NOT_DETECTED exit.
VerifyEvidence(r) ==
    /\ ePc[r] = "verify"
    /\ LET q == eReq[r]
           link == Links[q.linkId]
           b == Bundles[q.bundle]
           pc == MapParse(Slice(uniq(b.commentLinks), q.minComments))
           pr == MapParse(Slice(uniq(b.replyLinks), q.minReplies))
       IN \E apiFails \in (IF pr = << >> THEN {FALSE} ELSE BOOLEAN) :
            LET s1 == VerifyComments(NoEvidence, pc, q.campaignVideoId)
                st == VerifyReplies(s1, pr, q.campaignVideoId, b.textOk, apiFails)
            IN IF st.detected = Null
               THEN ERespond(r, [status |-> 422, code |-> "CHANNEL_NOT_DETECTED",
                                 reasons |-> st.reasons])
               ELSE EGoto(r, "bind",
                      [q EXCEPT !.detected = st.detected,
                                !.commentIds = Range(uniq(st.comments)),
                                !.replyIds = Range(uniq(st.replies)),
                                !.reasons = st.reasons,
                                !.actions = st.actions,
                                !.gotComments = Len(st.comments),
                                !.gotReplies = Len(st.replies)])
    /\ UNCHANGED <<userChannel, screenshots, entries, submissions, eErr, listed>>
    /\ UNCHANGED <<settleVars, deductVars, statusVars, ruleVars, linkVars, toolVars>>

\* User.updateOne of ytChannelId (errors ignored) or YT_CHANNEL_MISMATCH, then
\* the verified decision.
BindChannel(r) ==
    /\ ePc[r] = "bind"
    /\ LET q == eReq[r]
           verified == VerifiedApi(Cardinality(q.reasons), q.gotComments,
                                   q.gotReplies, q.minComments, q.minReplies,
                                   Links[q.linkId].requireLike)
       IN IF q.existing = Null \/ q.existing = q.detected
          THEN /\ \/ userChannel' = [userChannel EXCEPT ![q.userId] = q.detected]
                  \/ UNCHANGED userChannel
               /\ IF verified
                  THEN EGoto(r, "reuse", q)
                  ELSE ERespond(r, [status |-> 422, code |-> "VERIFICATION_FAILED",
                                    reasons |-> q.reasons])
          ELSE /\ ERespond(r, [status |-> 422, code |-> "YT_CHANNEL_MISMATCH",
                               reasons |-> q.reasons])
               /\ UNCHANGED userChannel
    /\ UNCHANGED <<screenshots, entries, submissions, eErr, listed>>
    /\ UNCHANGED <<settleVars, deductVars, statusVars, ruleVars, linkVars, toolVars>>

\* Screenshot.findOne over the verified documents of other users.
ReuseCheck(r) ==
    /\ ePc[r] = "reuse"
    /\ LET q == eReq[r]
           hits == ReuseByOtherUser(screenshots, q.userId, q.linkId,
                                    q.commentIds, q.replyIds)
       IN IF hits # {}
          THEN \E i \in hits :
                 ERespond(r, [status |-> 409, code |-> "ALREADY_USED_BY_OTHER_USER",
                              byUserId |-> screenshots[i].userId,
                              screenshotId |-> screenshots[i].screenshotId])
          ELSE EGoto(r, "find", q)
    /\ UNCHANGED <<userChannel, screenshots, entries, submissions, eErr, listed>>
    /\ UNCHANGED <<settleVars, deductVars, statusVars, ruleVars, linkVars, toolVars>>

\* Screenshot.findOne({ userId, linkId })
FindOwn(r) ==
    /\ ePc[r] = "find"
    /\ EGoto(r, "persist",
             [eReq[r] EXCEPT !.found =
                 FindIndex(screenshots, eReq[r].userId, eReq[r].linkId)])
    /\ UNCHANGED <<userChannel, screenshots, entries, submissions, eErr, listed>>
    /\ UNCHANGED <<settleVars, deductVars, statusVars, ruleVars, linkVars, toolVars>>

\* The document screenshotDoc.save() or Screenshot.create() writes.
ScreenshotDoc(q, docs) ==
    [ screenshotId |-> IF q.found = 0 THEN Len(docs) + 1
                       ELSE docs[q.found].screenshotId,
      userId |-> q.userId, linkId |-> q.linkId,
      videoId |-> q.campaignVideoId, channelId |-> q.detected,
      verified |-> TRUE, actions |-> q.actions,
      commentIds |-> q.commentIds, replyIds |-> q.replyIds ]

\* screenshotDoc.save() / Screenshot.create() and the catch block around them.
PersistScreenshot(r) ==
    /\ ePc[r] = "persist"
    /\ LET q == eReq[r]
           d == ScreenshotDoc(q, screenshots)
           violated == ViolatedIndexes(screenshots, d, q.found)
       IN \/ /\ violated # {}
             /\ \E k \in violated :
                  /\ eErr' = [eErr EXCEPT ![r] = [code |-> 11000, keyPattern |-> k]]
                  /\ ERespond(r, [status |-> 409, code |-> DuplicateKeyCode(k)])
             /\ UNCHANGED <<screenshots, listed>>
          \/ /\ violated = {}
             /\ screenshots' = IF q.found = 0 THEN Append(screenshots, d)
                               ELSE [screenshots EXCEPT ![q.found] = d]
             /\ listed' = listed \cup
                   {<<q.linkId, id, q.userId>> : id \in q.commentIds \cup q.replyIds}
             /\ EGoto(r, "entryFind", [q EXCEPT !.screenshotId = d.screenshotId])
             /\ UNCHANGED eErr
          \/ \* the write fails for another reason
             /\ eErr' = [eErr EXCEPT ![r] = [code |-> 1, keyPattern |-> "none"]]
             /\ ERespond(r, [status |-> 500, code |-> "VERIFICATION_PERSIST_ERROR"])
             /\ UNCHANGED <<screenshots, listed>>
    /\ UNCHANGED <<userChannel, entries, submissions>>
    /\ UNCHANGED <<settleVars, deductVars, statusVars, ruleVars, linkVars, toolVars>>

\* Entry.findOne({ type: 1, userId, linkId })
EntryFind(r) ==
    /\ ePc[r] = "entryFind"
    /\ EGoto(r, "entrySave",
             [eReq[r] EXCEPT !.entryFound =
                 FindIndex(entries, eReq[r].userId, eReq[r].linkId)])
    /\ UNCHANGED <<userChannel, screenshots, entries, submissions, eErr, listed>>
    /\ UNCHANGED <<settleVars, deductVars, statusVars, ruleVars, linkVars, toolVars>>

\* The type-1 entry entry.save() or Entry.create() writes.
EntryDoc(q, docs) ==
    [ entryId |-> IF q.entryFound = 0 THEN Len(docs) + 1
                  ELSE docs[q.entryFound].entryId,
      userId |-> q.userId, linkId |-> q.linkId,
      totalAmount |-> Links[q.linkId].amount,
      screenshotId |-> q.screenshotId ]

\* entry.save() / Entry.create(), the catch block, and the 201 response.
EntryPersist(r) ==
    /\ ePc[r] = "entrySave"
    /\ LET q == eReq[r]
           d == EntryDoc(q, entries)
       IN \/ /\ EntryUserLinkIndex(entries, d, q.entryFound)
             /\ entries' = IF q.entryFound = 0 THEN Append(entries, d)
                           ELSE [entries EXCEPT ![q.entryFound] = d]
             /\ ERespond(r, [status |-> 201, code |-> "OK",
                             userId |-> q.userId, linkId |-> q.linkId,
                             screenshotId |-> q.screenshotId,
                             entryId |-> d.entryId])
          \/ \* duplicate key or any other failure of the write
             /\ ERespond(r, [status |-> 500, code |-> "ENTRY_PERSIST_ERROR"])
             /\ UNCHANGED entries
    /\ UNCHANGED <<userChannel, screenshots, submissions, eErr, listed>>
    /\ UNCHANGED <<settleVars, deductVars, statusVars, ruleVars, linkVars, toolVars>>

EntryOff ==
    /\ userChannel = [u \in UserIds |-> Null]
    /\ screenshots = << >>
    /\ entries = << >>
    /\ submissions = 0
    /\ ePc = [r \in Handlers |-> "off"]
    /\ eReq = [r \in Handlers |-> NoEntryReq]
    /\ eErr = [r \in Handlers |-> NoError]
    /\ listed = {}
    /\ eResp = [r \in Handlers |-> NoResp]

EntryInit ==
    /\ userChannel = [u \in UserIds |-> Null]
    /\ screenshots = << >>
    /\ entries = << >>
    /\ submissions = 0
    /\ ePc = [r \in Handlers |-> "idle"]
    /\ eReq = [r \in Handlers |-> NoEntryReq]
    /\ eErr = [r \in Handlers |-> NoError]
    /\ listed = {}
    /\ eResp = [r \in Handlers |-> NoResp]

EntryNext ==
    \E r \in Handlers :
        \/ EntryStart(r)
        \/ FetchThreads(r)
        \/ VerifyEvidence(r)
        \/ BindChannel(r)
        \/ ReuseCheck(r)
        \/ FindOwn(r)
        \/ PersistScreenshot(r)
        \/ EntryFind(r)
        \/ EntryPersist(r)

RaceNext ==
    \E r \in Handlers :
        \/ RaceStart(r)
        \/ FetchThreads(r)
        \/ VerifyEvidence(r)
        \/ BindChannel(r)
        \/ ReuseCheck(r)
        \/ FindOwn(r)
        \/ PersistScreenshot(r)
        \/ EntryFind(r)
        \/ EntryPersist(r)

\* One request at a time on link L1: a request is received only when no other
\* request is in flight.
MaxSeqSubmissions == 3

SeqBundles == {"b1", "b2", "b3", "b4", "b5", "b6", "b9", "b10"}

SeqStart(r) ==
    /\ \A h \in Handlers : ePc[h] = "idle"
    /\ StartWith(r, UserIds, {"L1"}, SeqBundles, {"ok"}, MaxSeqSubmissions)

\* One request at a time on link L3, which asks for two comments and two
\* replies.
MaxPairSubmissions == 2

PairStart(r) ==
    /\ \A h \in Handlers : ePc[h] = "idle"
    /\ StartWith(r, UserIds, PairLinks, PairBundles, {"ok"}, MaxPairSubmissions)

PairNext ==
    \E r \in {"h1"} :
        \/ PairStart(r)
        \/ FetchThreads(r)
        \/ VerifyEvidence(r)
        \/ BindChannel(r)
        \/ ReuseCheck(r)
        \/ FindOwn(r)
        \/ PersistScreenshot(r)
        \/ EntryFind(r)
        \/ EntryPersist(r)

\* With one request at a time one handler serves them all.
SeqNext ==
    \E r \in {"h1"} :
        \/ SeqStart(r)
        \/ FetchThreads(r)
        \/ VerifyEvidence(r)
        \/ BindChannel(r)
        \/ ReuseCheck(r)
        \/ FindOwn(r)
        \/ PersistScreenshot(r)
        \/ EntryFind(r)
        \/ EntryPersist(r)

(***************************************************************************)
(* createLink                                                              *)
(***************************************************************************)
MaxLinks == 1

\* ---- values a JSON body can carry; a number is kept as twice its value so
\* that halves are representable
JNum(twice) == [t |-> "number", twice |-> twice]
JStr(str) == [t |-> "string", s |-> str]
JBool(b) == [t |-> "boolean", b |-> b]
JNull == [t |-> "null"]
JUndefined == [t |-> "undefined"]

NaN == [finite |-> FALSE, twice |-> 0]
Finite(twice) == [finite |-> TRUE, twice |-> twice]

\* Number("..."): the numeric value of the strings in use, NaN otherwise
StringToNumber(str) ==
    IF str = "" THEN Finite(0)
    ELSE IF str = "0" THEN Finite(0)
    ELSE IF str = "1" THEN Finite(2)
    ELSE NaN

\* Number(v)
ToNumber(v) ==
    IF v.t = "number" THEN Finite(v.twice)
    ELSE IF v.t = "string" THEN StringToNumber(v.s)
    ELSE IF v.t = "boolean" THEN (IF v.b THEN Finite(2) ELSE Finite(0))
    ELSE IF v.t = "null" THEN Finite(0)
    ELSE NaN

\* Math.floor of a number kept as twice its value
Floor(twice) == twice \div 2

\* const clamp02 = (v, def) => ... inside createLink
createLink_clamp02(v, def) ==
    LET n == ToNumber(v)
    IN IF ~n.finite THEN def
       ELSE Max2(0, Min2(2, Floor(n.twice)))

\* requireLike === true || requireLike === 1 || requireLike === "1"
LikeFlag(v) ==
    \/ v = JBool(TRUE)
    \/ v = JNum(2)
    \/ v = JStr("1")

\* if (c === 0 && r === 0)
BothZeroNever(c, r) == FALSE
BothZero(c, r) == c = 0 /\ r = 0

\* LinkSchema: min 0, max 2 on both rules
SchemaValid(doc) ==
    /\ doc.minComments >= 0 /\ doc.minComments <= 2
    /\ doc.minReplies >= 0 /\ doc.minReplies <= 2

\* LinkSchema.pre('save')
PreSave(doc) == ~(doc.minComments = 0 /\ doc.minReplies = 0)

\* undefined, null, true, -0.5, 0, 1.5, 3, "1", "two"
RuleValues ==
    { JUndefined, JNull, JBool(TRUE), JNum(-1), JNum(0), JNum(3), JNum(6),
      JStr("1"), JStr("two") }

LikeValues == {JStr("1"), JUndefined}

\* adminId / target / amount / expireIn of the body: complete, one missing,
\* an adminId no Admin has, a target that is not a number
LinkFieldCases == {"ok", "missing", "noAdmin", "badTarget"}

NoLinkReq == [none |-> TRUE]
NoLinkResp == [status |-> 0]

createLink ==
    /\ Len(linkDocs) < MaxLinks
    /\ \E f \in LinkFieldCases, mc \in RuleValues, mr \in RuleValues,
          rl \in LikeValues :
         LET c == createLink_clamp02(mc, 2)
             r == createLink_clamp02(mr, 2)
             like == LikeFlag(rl)
             doc == [minComments |-> c, minReplies |-> r, requireLike |-> like]
         IN /\ linkReq' = [fields |-> f, minComments |-> mc, minReplies |-> mr,
                           requireLike |-> rl]
            /\ IF f = "missing"
               THEN /\ linkResp' = [status |-> 400, error |-> "required"]
                    /\ UNCHANGED linkDocs
               ELSE IF f = "noAdmin"
               THEN /\ linkResp' = [status |-> 400, error |-> "Invalid adminId"]
                    /\ UNCHANGED linkDocs
               ELSE IF BothZero(c, r)
               THEN /\ linkResp' = [status |-> 400, error |-> "both 0"]
                    /\ UNCHANGED linkDocs
               ELSE IF f = "badTarget" \/ ~SchemaValid(doc) \/ ~PreSave(doc)
               THEN \* Link.create rejects; asyncHandler passes the error on
                    /\ linkResp' = [status |-> 500, error |-> "next(err)"]
                    /\ UNCHANGED linkDocs
               ELSE /\ linkDocs' = Append(linkDocs, doc)
                    /\ linkResp' = [status |-> 200, minComments |-> c,
                                    minReplies |-> r, requireLike |-> like]
    /\ UNCHANGED <<settleVars, deductVars, statusVars, ruleVars, entryVars, toolVars>>

LinkOff ==
    /\ linkDocs = << >>
    /\ linkReq = NoLinkReq
    /\ linkResp = NoLinkResp

LinkNext == createLink

(***************************************************************************)
(* hexHamming (controllers/entryController.js)                             *)
(*                                                                         *)
(* A hex string is the sequence of its characters.  parseInt(ch, 16) gives *)
(* the digit's value, or NaN for a character that is no hex digit; the     *)
(* operands of ^ go through ToInt32, which takes NaN to 0.                 *)
(***************************************************************************)
MaxHexLen == 3

HexLower ==
    <<"0", "1", "2", "3", "4", "5", "6", "7", "8", "9", "a", "b", "c", "d", "e", "f">>
HexUpper == <<"A", "B", "C", "D", "E", "F">>

parseInt16(ch) ==
    IF \E i \in DOMAIN HexLower : HexLower[i] = ch
    THEN (CHOOSE i \in DOMAIN HexLower : HexLower[i] = ch) - 1
    ELSE IF \E i \in DOMAIN HexUpper : HexUpper[i] = ch
         THEN (CHOOSE i \in DOMAIN HexUpper : HexUpper[i] = ch) + 9
         ELSE -1

\* ToInt32 of the operand: NaN (written -1 by parseInt16) becomes 0
ToInt32(n) == IF n < 0 THEN 0 ELSE n

BitOf(n, k) == (n \div (2 ^ k)) % 2

\* x ^ y on the low four bits, then & 0xF
NibbleXor(x, y) ==
    LET X == ToInt32(x)
        Y == ToInt32(y)
        bit(k) == ((BitOf(X, k) + BitOf(Y, k)) % 2) * (2 ^ k)
    IN (bit(0) + bit(1) + bit(2) + bit(3)) % 16

NIBBLE_POP == <<0, 1, 1, 2, 1, 2, 2, 3, 1, 2, 2, 3, 2, 3, 3, 4>>

NibblePopOnes(x) == IF x = 0 THEN 0 ELSE 1

NibblePop(x) == NIBBLE_POP[x + 1]

\* String.prototype.padStart(len, '0')
padStart(s, len) ==
    IF Len(s) >= len THEN s
    ELSE [i \in 1..(len - Len(s)) |-> "0"] \o s

\* s[i] of a JavaScript string: undefined past the end, and
\* parseInt(undefined, 16) is NaN
CharAt(s, i) == IF i <= Len(s) THEN s[i] ELSE "undefined"

RECURSIVE HammingLoop(_, _, _, _)
HammingLoop(a, b, i, len) ==
    IF i > len THEN 0
    ELSE NibblePop(NibbleXor(parseInt16(CharAt(a, i)), parseInt16(CharAt(b, i))))
         + HammingLoop(a, b, i + 1, len)

hexHammingFirstPadded(a, b) ==
    LET len == Max2(Len(a), Len(b))
    IN HammingLoop(padStart(a, len), b, 1, len)

hexHamming(a, b) ==
    LET len == Max2(Len(a), Len(b))
    IN HammingLoop(padStart(a, len), padStart(b, len), 1, len)

HexChars == {"0", "1", "7", "E"}
HexStrings == UNION {[1..n -> HexChars] : n \in 0..MaxHexLen}

NoHamming == [ab |-> -1, ba |-> -1, aa |-> -1, bb |-> -1]

HamInit ==
    /\ hamIn \in [a : HexStrings, b : HexStrings]
    /\ hamOut = NoHamming

HamOff ==
    /\ hamIn = [a |-> << >>, b |-> << >>]
    /\ hamOut = NoHamming

\* One comparison of the pair, in both orders and of each string with itself.
Compare ==
    /\ hamOut = NoHamming
    /\ hamOut' = [ab |-> hexHamming(hamIn.a, hamIn.b),
                  ba |-> hexHamming(hamIn.b, hamIn.a),
                  aa |-> hexHamming(hamIn.a, hamIn.a),
                  bb |-> hexHamming(hamIn.b, hamIn.b)]
    /\ UNCHANGED <<hamIn, baseVars, imgVars, visVars, cacheVars, fixVars, acctVars,
                 ocrVars>>

HamNext == Compare

(***************************************************************************)
(* createUserEntry, image generations                                      *)
(*   "vision": controllers/employeeController.js (OpenAI vision analyzer)  *)
(*   "flask":  controllers/entryController.js (Flask analyzer, link rules) *)
(* Both write models/Screenshot.js documents.  Database calls are taken to *)
(* answer; the analyzer may fail.                                          *)
(***************************************************************************)
MaxImgSubmissions == 2
MaxImgRaceSubmissions == 2

ImgHandlers == {"g1", "g2"}
Generations == {"vision", "flask"}
ALL_ROLES == <<"like", "comment1", "comment2", "reply1", "reply2">>
NoFile == "none"

\* The uploaded files.  computePhash gives near-identical pictures hashes
\* that differ in few bits; a1..a5 and f1..f5 are two unrelated sets, e6 is
\* 6 bits and g7 is 7 bits from the nearest of a1..a5.
computePhash ==
    [ a1 |-> <<"0", "0", "0", "0">>, a2 |-> <<"0", "0", "0", "1">>,
      a3 |-> <<"0", "0", "0", "2">>, a4 |-> <<"0", "0", "0", "4">>,
      a5 |-> <<"0", "0", "0", "8">>,
      f1 |-> <<"f", "f", "f", "f">>, f2 |-> <<"f", "f", "f", "e">>,
      f3 |-> <<"f", "f", "f", "d">>, f4 |-> <<"f", "f", "f", "b">>,
      f5 |-> <<"f", "f", "f", "7">>,
      e6 |-> <<"0", "3", "f", "0">>, g7 |-> <<"0", "7", "f", "0">> ]
ImageIds == DOMAIN computePhash

\* crypto sha256 of the file's bytes: distinct files, distinct digests
computeSha256(img) == <<"sha256", img>>

\* req.files by role, in the order of ALL_ROLES
ImgBundles ==
    [ bA  |-> <<"a1", "a2", "a3", "a4", "a5">>,
      bF  |-> <<"f1", "f2", "f3", "f4", "f5">>,
      bA4 |-> <<"g7", "a1", "a2", "a3", "a4">>,
      bE  |-> <<"e6", "f2", "f3", "f4", "f5">>,
      bG  |-> <<"g7", "f2", "f3", "f4", "f5">>,
      bT  |-> <<"f1", "f2", "f2", "f4", "f5">>,
      p1  |-> <<NoFile, "g7", NoFile, NoFile, NoFile>>,
      p2  |-> <<NoFile, "a1", "g7", NoFile, NoFile>>,
      p3  |-> <<"g7", "a1", NoFile, "a2", NoFile>>,
      p4  |-> <<"g7", "a1", "a2", "a3", NoFile>> ]
ImgBundleNames == DOMAIN ImgBundles

ImgFieldCases == {"ok", "missing", "otherUpi", "badFile"}

RoleIndexes == DOMAIN ALL_ROLES

\* requiredRoles of the flask generation; the vision generation wants all five
RequiredRoles(gen, minC, minR, like) ==
    IF gen = "vision" THEN RoleIndexes
    ELSE {i \in RoleIndexes :
            \/ ALL_ROLES[i] = "like" /\ like
            \/ ALL_ROLES[i] = "comment1" /\ minC >= 1
            \/ ALL_ROLES[i] = "comment2" /\ minC >= 2
            \/ ALL_ROLES[i] = "reply1" /\ minR >= 1
            \/ ALL_ROLES[i] = "reply2" /\ minR >= 2}

PresentRoles(b) == {i \in RoleIndexes : ImgBundles[b][i] # NoFile}

RECURSIVE SeqOfSet(_)
\* the members of a set of role indexes in ascending order
SeqOfSet(S) ==
    IF S = {} THEN << >>
    ELSE LET lo == CHOOSE x \in S : \A y \in S : x <= y
         IN <<lo>> \o SeqOfSet(S \ {lo})

\* phashBundle: one { role, phash, sha256 } per uploaded file
phashBundle(b) ==
    LET roles == SeqOfSet(PresentRoles(b))
    IN [k \in DOMAIN roles |->
          [role |-> ALL_ROLES[roles[k]],
           phash |-> computePhash[ImgBundles[b][roles[k]]],
           sha256 |-> computeSha256(ImgBundles[b][roles[k]])]]

ImgRules(gen, l) ==
    [minComments |-> IF gen = "vision" THEN 2 ELSE clamp02(Links[l].minComments, 2),
     minReplies |-> IF gen = "vision" THEN 2 ELSE clamp02(Links[l].minReplies, 2),
     requireLike |-> IF gen = "vision" THEN TRUE ELSE Links[l].requireLike]

\* The checks before any image is hashed; "ok" when all pass.
ImgValidate(gen, l, b, f) ==
    LET rules == ImgRules(gen, l)
    IN IF f = "missing" THEN "VALIDATION_ERROR"
       ELSE IF f = "otherUpi" THEN "UPI_MISMATCH"
       ELSE IF gen = "flask" /\ InvalidRules(rules.minComments, rules.minReplies)
            THEN "INVALID_RULES"
       ELSE IF ~(RequiredRoles(gen, rules.minComments, rules.minReplies,
                               rules.requireLike) \subseteq PresentRoles(b))
            THEN "MISSING_IMAGES"
       ELSE IF f = "badFile" THEN "INVALID_IMAGE_FILES"
       ELSE "ok"

HAMMING_THRESHOLD == 6

isDuplicateNever(docs, userId, phashes, hammingThreshold) == FALSE

isDuplicateAnyUser(docs, userId, phashes, hammingThreshold) ==
    \E i \in DOMAIN docs, j \in RoleIndexes, k \in DOMAIN phashes :
        /\ j \in DOMAIN docs[i].phashes
        /\ hexHamming(phashes[k], docs[i].phashes[j]) <= hammingThreshold

\* isDuplicateForUser(userId, phashes, 6)
isDuplicateForUser(docs, userId, phashes, hammingThreshold) ==
    LET seen == UNION {{docs[i].phashes[k] : k \in DOMAIN docs[i].phashes} :
                         i \in {j \in DOMAIN docs : docs[j].userId = userId}}
    IN /\ seen # {}
       /\ \E k \in DOMAIN phashes :
             \E old \in seen : hexHamming(phashes[k], old) <= hammingThreshold

\* Screenshot.aggregate: $match userId and linkId, $unwind files,
\* $match files.sha256 in sha256s, $count
ReusedCount(docs, userId, linkId, sha256s) ==
    Cardinality({<<i, k>> \in (DOMAIN docs) \X RoleIndexes :
                    /\ docs[i].userId = userId
                    /\ docs[i].linkId = linkId
                    /\ k \in DOMAIN docs[i].files
                    /\ \E n \in DOMAIN sha256s :
                          docs[i].files[k].sha256 = sha256s[n]})

\* vision: reusedCount >= 4;  flask: Math.max(presentRoles.length - 1, 2)
ReuseThreshold(gen, present) ==
    IF gen = "vision" THEN 4 ELSE Max2(present - 1, 2)

\* ---- what the analyzer answers
\* analysis.user_id: null, or a string given by its characters
ImgHandleValues == {<<"null">>, <<" ">>, <<"@", "a">>, <<" ", "A">>, <<"@", "b">>}
JsNull == <<"null">>

RECURSIVE TrimStart(_)
TrimStart(s) == IF s # << >> /\ Head(s) = " " THEN TrimStart(Tail(s)) ELSE s
RECURSIVE TrimEnd(_)
TrimEnd(s) ==
    IF s # << >> /\ s[Len(s)] = " " THEN TrimEnd(SubSeq(s, 1, Len(s) - 1)) ELSE s
Trim(s) == TrimEnd(TrimStart(s))

LowerChar(ch) == IF ch = "A" THEN "a" ELSE IF ch = "B" THEN "b" ELSE ch
toLowerCase(s) == [i \in DOMAIN s |-> LowerChar(s[i])]

\* normalizeHandle of models/Screenshot.js
normalizeHandle(h) ==
    LET t == Trim(h)
        at == IF t # << >> /\ Head(t) = "@" THEN t ELSE <<"@">> \o t
    IN toLowerCase(at)

\* typeof user_id === 'string' && user_id.trim().length > 0
HasHandleText(h) == h # JsNull /\ Trim(h) # << >>

\* callModel of verifyWithOpenAI: uid ? user_id_raw.toLowerCase() : null
VisionUserId(raw) == IF HasHandleText(raw) THEN toLowerCase(raw) ELSE JsNull

\* The answers tried: every combination without a rules echo, and one answer
\* that echoes rules asking for nothing.
AnalysisResults ==
    [ failed : {FALSE}, liked : BOOLEAN, user_id : ImgHandleValues,
      counts : {<<2, 2>>, <<1, 0>>}, verified : BOOLEAN, echo : {<< >>} ]
    \cup
    [ failed : {FALSE}, liked : {FALSE}, user_id : {<<"@", "a">>},
      counts : {<<1, 0>>}, verified : BOOLEAN,
      echo : {<<[min_comments |-> 0, min_replies |-> 0, require_like |-> FALSE]>>} ]
AnalyzerDown ==
    [failed |-> TRUE, liked |-> FALSE, user_id |-> JsNull, counts |-> <<1, 0>>,
     verified |-> FALSE, echo |-> << >>]

\* analysisPayload as first built from the analyzer's answer
AnalysisPayload(gen, rules, a) ==
    IF gen = "vision"
    THEN [liked |-> a.liked, user_id |-> VisionUserId(a.user_id),
          counts |-> a.counts, verified |-> FALSE,
          rules |-> [min_comments |-> 2, min_replies |-> 2, require_like |-> TRUE]]
    ELSE [liked |-> a.liked, user_id |-> a.user_id, counts |-> a.counts,
          verified |-> a.verified,
          rules |-> EffectiveRules([echo |-> a.echo,
                                    minComments |-> rules.minComments,
                                    minReplies |-> rules.minReplies,
                                    requireLike |-> rules.requireLike])]

KeepVerified(p) == p

\* analysisPayload.verified = !!(hasHandle && meetsCounts && meetsLike)
RecomputeVerified(p) ==
    [p EXCEPT !.verified =
        /\ HasHandleText(p.user_id)
        /\ MeetsCounts(p.counts[1], p.counts[2],
                       p.rules.min_comments, p.rules.min_replies)
        /\ MeetsLike(p.rules.require_like, p.liked)]

NoPayload == [none |-> TRUE]

\* ---- Screenshot.create
\* pre('validate') of models/Screenshot.js
ShotValid(d) ==
    /\ Len(d.phashes) = 5
    /\ Cardinality({d.phashes[k] : k \in DOMAIN d.phashes}) = 5
    /\ Len(d.files) = 5
    /\ {d.files[k].role : k \in DOMAIN d.files} = {ALL_ROLES[i] : i \in RoleIndexes}
    /\ Cardinality({d.files[k].sha256 : k \in DOMAIN d.files}) = 5

\* the document as saved: signatures derived, handle normalized
ShotDoc(q) ==
    [userId |-> q.userId, linkId |-> q.linkId, verified |-> TRUE,
     analysis |-> [verified |-> q.payload.verified, user_id |-> q.payload.user_id],
     handle |-> IF q.payload.user_id = JsNull \/ q.payload.user_id = << >>
                THEN JsNull ELSE normalizeHandle(q.payload.user_id),
     phashes |-> [k \in DOMAIN q.hashed |-> q.hashed[k].phash],
     bundleSig |-> {q.hashed[k].phash : k \in DOMAIN q.hashed},
     bundleSha |-> {q.hashed[k].sha256 : k \in DOMAIN q.hashed},
     files |-> q.hashed]

\* unique { userId, linkId, bundleSig }
BundleSigIndex(docs, d) ==
    \A i \in DOMAIN docs :
        ~(docs[i].userId = d.userId /\ docs[i].linkId = d.linkId
          /\ docs[i].bundleSig = d.bundleSig)
\* unique { userId, linkId, bundleSha }
BundleShaIndex(docs, d) ==
    \A i \in DOMAIN docs :
        ~(docs[i].userId = d.userId /\ docs[i].linkId = d.linkId
          /\ docs[i].bundleSha = d.bundleSha)
HandleIndexOff(docs, d) == TRUE
\* unique { linkId, handle } among verified documents with a string handle
HandleIndex(docs, d) ==
    (d.verified /\ d.handle # JsNull)
        => \A i \in DOMAIN docs :
              ~(docs[i].verified /\ docs[i].handle # JsNull
                /\ docs[i].linkId = d.linkId /\ docs[i].handle = d.handle)

ImgViolated(docs, d) ==
    {n \in {"bundleSig", "bundleSha", "handle"} :
        \/ n = "bundleSig" /\ ~BundleSigIndex(docs, d)
        \/ n = "bundleSha" /\ ~BundleShaIndex(docs, d)
        \/ n = "handle" /\ ~HandleIndex(docs, d)}

\* the catch block: the index named in the E11000 message picks the code
ImgDuplicateCode(index) ==
    IF index = "bundleSig" THEN "DUPLICATE_BUNDLE_SIG"
    ELSE IF index = "bundleSha" THEN "DUPLICATE_BUNDLE_SHA"
    ELSE IF index = "handle" THEN "HANDLE_ALREADY_VERIFIED"
    ELSE "DUPLICATE_KEY"

NoImgReq == [none |-> TRUE]
NoImgResp == [status |-> 0, code |-> "none"]

ImgRespond(h, status, code) ==
    /\ imgResp' = [imgResp EXCEPT ![h] = [status |-> status, code |-> code]]
    /\ imgPc' = [imgPc EXCEPT ![h] = "idle"]

\* body and file checks, then phashBundle
ImgStartWith(h, gens, users, links, bundles, fields, max) ==
    /\ imgPc[h] = "idle"
    /\ imgCount < max
    /\ imgCount' = imgCount + 1
    /\ \E gen \in gens, u \in users, l \in links, b \in bundles, f \in fields :
         LET code == ImgValidate(gen, l, b, f)
         IN /\ imgReq' = [imgReq EXCEPT ![h] =
                  [gen |-> gen, userId |-> u, linkId |-> l, bundle |-> b,
                   hashed |-> phashBundle(b), payload |-> NoPayload, shot |-> 0]]
            /\ IF code = "ok"
               THEN /\ imgPc' = [imgPc EXCEPT ![h] = "dup"]
                    /\ imgResp' = [imgResp EXCEPT ![h] = NoImgResp]
               ELSE ImgRespond(h, 400, code)
    /\ UNCHANGED <<imgShots, imgEntries>>
    /\ UNCHANGED <<baseVars, hamVars, visVars, cacheVars, fixVars, acctVars,
                 ocrVars>>

ImgStart(h) ==
    ImgStartWith(h, Generations, UserIds, LinkIds \ PairLinks, ImgBundleNames,
                 ImgFieldCases,
                 MaxImgSubmissions)

\* near-duplicate guard
ImgDupCheck(h) ==
    /\ imgPc[h] = "dup"
    /\ LET q == imgReq[h]
           phashes == [k \in DOMAIN q.hashed |-> q.hashed[k].phash]
       IN IF isDuplicateForUser(imgShots, q.userId, phashes, HAMMING_THRESHOLD)
          THEN ImgRespond(h, 409, "NEAR_DUPLICATE")
          ELSE /\ imgPc' = [imgPc EXCEPT ![h] = "reuse"]
               /\ UNCHANGED imgResp
    /\ UNCHANGED <<imgShots, imgEntries, imgReq, imgCount>>
    /\ UNCHANGED <<baseVars, hamVars, visVars, cacheVars, fixVars, acctVars,
                 ocrVars>>

\* reuse guard
ImgReuseCheck(h) ==
    /\ imgPc[h] = "reuse"
    /\ LET q == imgReq[h]
           sha256s == [k \in DOMAIN q.hashed |-> q.hashed[k].sha256]
       IN IF ReusedCount(imgShots, q.userId, q.linkId, sha256s)
               >= ReuseThreshold(q.gen, Len(q.hashed))
          THEN ImgRespond(h, 409, "NEAR_DUPLICATE")
          ELSE /\ imgPc' = [imgPc EXCEPT ![h] = "analyze"]
               /\ UNCHANGED imgResp
    /\ UNCHANGED <<imgShots, imgEntries, imgReq, imgCount>>
    /\ UNCHANGED <<baseVars, hamVars, visVars, cacheVars, fixVars, acctVars,
                 ocrVars>>

\* the analyzer's answer a, the payload, the server's decision
ImgAnalyzeWith(h, a) ==
    /\ imgPc[h] = "analyze"
    /\ LET q == imgReq[h]
           p == RecomputeVerified(AnalysisPayload(q.gen, ImgRules(q.gen, q.linkId), a))
       IN IF a.failed
          THEN ImgRespond(h, 502, "ANALYZER_ERROR") /\ UNCHANGED imgReq
          ELSE /\ imgReq' = [imgReq EXCEPT ![h].payload = p]
               /\ IF ~p.verified
                  THEN ImgRespond(h, 422, "VERIFICATION_FAILED")
                  ELSE /\ imgPc' = [imgPc EXCEPT ![h] = "shot"]
                       /\ UNCHANGED imgResp
    /\ UNCHANGED <<imgShots, imgEntries, imgCount>>
    /\ UNCHANGED <<baseVars, hamVars, visVars, cacheVars, fixVars, acctVars,
                 ocrVars>>

ImgAnalyze(h) == \E a \in AnalysisResults \cup {AnalyzerDown} : ImgAnalyzeWith(h, a)

\* Screenshot.create and its catch block
ImgCreateShot(h) ==
    /\ imgPc[h] = "shot"
    /\ LET d == ShotDoc(imgReq[h])
       IN IF ~ShotValid(d)
          THEN /\ ImgRespond(h, 500, "SCREENSHOT_PERSIST_ERROR")
               /\ UNCHANGED <<imgShots, imgReq>>
          ELSE IF ImgViolated(imgShots, d) # {}
          THEN /\ \E n \in ImgViolated(imgShots, d) :
                     ImgRespond(h, 409, ImgDuplicateCode(n))
               /\ UNCHANGED <<imgShots, imgReq>>
          ELSE /\ imgShots' = Append(imgShots, d)
               /\ imgReq' = [imgReq EXCEPT ![h].shot = Len(imgShots) + 1]
               /\ imgPc' = [imgPc EXCEPT ![h] = "entry"]
               /\ UNCHANGED imgResp
    /\ UNCHANGED <<imgEntries, imgCount>>
    /\ UNCHANGED <<baseVars, hamVars, visVars, cacheVars, fixVars, acctVars,
                 ocrVars>>

\* Entry.create and the 201
ImgCreateEntry(h) ==
    /\ imgPc[h] = "entry"
    /\ \/ /\ imgEntries' = Append(imgEntries,
                                  [userId |-> imgReq[h].userId,
                                   linkId |-> imgReq[h].linkId,
                                   screenshot |-> imgReq[h].shot])
          /\ ImgRespond(h, 201, "created")
       \/ \* Entry.create throws
          /\ ImgRespond(h, 500, "ENTRY_PERSIST_ERROR")
          /\ UNCHANGED imgEntries
    /\ UNCHANGED <<imgShots, imgReq, imgCount>>
    /\ UNCHANGED <<baseVars, hamVars, visVars, cacheVars, fixVars, acctVars,
                 ocrVars>>

ImgInit ==
    /\ imgShots = << >>
    /\ imgEntries = << >>
    /\ imgPc = [h \in ImgHandlers |-> "idle"]
    /\ imgReq = [h \in ImgHandlers |-> NoImgReq]
    /\ imgResp = [h \in ImgHandlers |-> NoImgResp]
    /\ imgCount = 0

ImgOff == ImgInit

\* one request at a time
ImgNext ==
    \E h \in {"g1"} :
        \/ ImgStart(h)
        \/ ImgDupCheck(h)
        \/ ImgReuseCheck(h)
        \/ ImgAnalyze(h)
        \/ ImgCreateShot(h)
        \/ ImgCreateEntry(h)

\* two requests in flight, each with five fresh-looking files
ImgRaceStart(h) ==
    ImgStartWith(h, Generations, UserIds, {"L1"}, {"bA", "bF", "bG"}, {"ok"},
                 MaxImgRaceSubmissions)

ImgRaceNext ==
    \E h \in ImgHandlers :
        \/ ImgRaceStart(h)
        \/ ImgDupCheck(h)
        \/ ImgReuseCheck(h)
        \/ ImgAnalyze(h)
        \/ ImgCreateShot(h)
        \/ ImgCreateEntry(h)

(***************************************************************************)
(* callVisionFast (the vision extractor of the email/handle controller)    *)
(***************************************************************************)
PRIMARY_TOKENS == 320
RETRY_TOKENS == 900
MODEL_PRIMARY == "primary"
MODEL_FALLBACK == "fallback"

\* tryOnce ends with the parsed object or throws: HTTP error, timeout, text
\* that is no JSON, JSON without the three required keys
TryOutcomes == {"ok", "http", "timeout", "badJson", "invalid"}
ImageParts == {"img1", "img2"}

NoVision == [state |-> "pending"]
RaceIdle == [primary |-> "off", fallback |-> "off"]

\* The attempts of the sequential branch, in order.
VisPlanFallbackFirst(step) ==
    IF step = 1 THEN [model |-> MODEL_PRIMARY, tokens |-> PRIMARY_TOKENS]
    ELSE IF step = 2 THEN [model |-> MODEL_FALLBACK, tokens |-> RETRY_TOKENS]
    ELSE [model |-> MODEL_PRIMARY, tokens |-> RETRY_TOKENS]

VisPlan(step) ==
    IF step = 1 THEN [model |-> MODEL_PRIMARY, tokens |-> PRIMARY_TOKENS]
    ELSE IF step = 2 THEN [model |-> MODEL_PRIMARY, tokens |-> RETRY_TOKENS]
    ELSE [model |-> MODEL_FALLBACK, tokens |-> RETRY_TOKENS]

\* what tryOnce(imagePart, model, tokens) returns when it succeeds
Parsed(image, model, tokens) == [of |-> image, by |-> model, tokens |-> tokens]

VisCall(step, o) ==
    [model |-> VisPlan(step).model, tokens |-> VisPlan(step).tokens, outcome |-> o]

\* AGGRESSIVE_RACE off: try, catch, try, catch, try
VisTry(step) ==
    /\ ~visIn.aggressive
    /\ visPc = step
    /\ \E o \in TryOutcomes :
         /\ visCalls' = Append(visCalls, VisCall(step, o))
         /\ IF o = "ok"
            THEN /\ visOut' = [state |-> "returned",
                               value |-> Parsed(visIn.image, VisPlan(step).model,
                                                VisPlan(step).tokens)]
                 /\ visPc' = 0
            ELSE IF step = 3
            THEN /\ visOut' = [state |-> "thrown", error |-> o]
                 /\ visPc' = 0
            ELSE /\ visPc' = step + 1
                 /\ UNCHANGED visOut
    /\ UNCHANGED <<visIn, visRace>>
    /\ UNCHANGED <<baseVars, hamVars, imgVars, cacheVars, fixVars, acctVars,
                 ocrVars>>

\* AGGRESSIVE_RACE on: the primary chain and the fallback call run together.
\* pFallback ends in null when its call fails, so Promise.any settles with
\* the first of: a primary success, a fallback success, a fallback failure.
VisRacePrimary ==
    /\ visIn.aggressive
    /\ visOut = NoVision
    /\ visRace.primary \in {"first", "retry"}
    /\ LET step == IF visRace.primary = "first" THEN 1 ELSE 2
       IN \E o \in TryOutcomes :
            /\ visCalls' = Append(visCalls, VisCall(step, o))
            /\ IF o = "ok"
               THEN /\ visOut' = [state |-> "returned",
                                  value |-> Parsed(visIn.image, VisPlan(step).model,
                                                   VisPlan(step).tokens)]
                    /\ visRace' = [visRace EXCEPT !.primary = "ok"]
               ELSE /\ visRace' = [visRace EXCEPT !.primary =
                                     IF step = 1 THEN "retry" ELSE "failed"]
                    /\ UNCHANGED visOut
    /\ UNCHANGED <<visIn, visPc>>
    /\ UNCHANGED <<baseVars, hamVars, imgVars, cacheVars, fixVars, acctVars,
                 ocrVars>>

VisRaceFallback ==
    /\ visIn.aggressive
    /\ visOut = NoVision
    /\ visRace.fallback = "pending"
    /\ \E o \in TryOutcomes :
         /\ visCalls' = Append(visCalls, VisCall(3, o))
         /\ visRace' = [visRace EXCEPT !.fallback = IF o = "ok" THEN "ok" ELSE "failed"]
         /\ visOut' = [state |-> "returned",
                       value |-> IF o = "ok"
                                 THEN Parsed(visIn.image, MODEL_FALLBACK, RETRY_TOKENS)
                                 ELSE [of |-> Null, by |-> Null, tokens |-> 0]]
    /\ UNCHANGED <<visIn, visPc>>
    /\ UNCHANGED <<baseVars, hamVars, imgVars, cacheVars, fixVars, acctVars,
                 ocrVars>>

VisInit ==
    /\ visIn \in [image : ImageParts, aggressive : BOOLEAN]
    /\ visPc = IF visIn.aggressive THEN 0 ELSE 1
    /\ visRace = IF visIn.aggressive
                 THEN [primary |-> "first", fallback |-> "pending"] ELSE RaceIdle
    /\ visCalls = << >>
    /\ visOut = NoVision

VisOff ==
    /\ visIn = [image |-> "img1", aggressive |-> FALSE]
    /\ visPc = 0
    /\ visRace = RaceIdle
    /\ visCalls = << >>
    /\ visOut = NoVision

VisNext ==
    \/ \E step \in 1..3 : VisTry(step)
    \/ VisRacePrimary
    \/ VisRaceFallback

(***************************************************************************)
(* extractEmailsAndHandlesBatch and its in-process cache                   *)
(* (first version of the email/handle controller, with YouTube enrichment) *)
(* ENABLE_CACHE is on and YT_API_KEY is set, their defaults in production. *)
(***************************************************************************)
MaxExtracts == 2
MaxTicks == 2
CACHE_TTL_MS == 300000
CACHE_MAX == 500
CACHE_KEEP == 400

\* An uploaded file: what multer reports and what the picture shows.
XFiles == [originalname : {"shot.png"}, size : {1, 2}, content : {"X", "Y", "cap"}]
XUserIds == {"u1", ""}
TickSteps == {150000, 300001}

\* hashString of `p|originalname|size|models|tokens|detail|darkenhance`:
\* distinct strings, distinct digests; the model settings are fixed here
FileCacheKey(f) == <<"p", f.originalname, f.size>>
YtCacheKey(ytHandle) == <<"yt1", ytHandle>>

\* null, where a string or an object is expected
XNone == << >>

KeyIndex(c, key) ==
    IF \E i \in DOMAIN c : c[i].key = key
    THEN CHOOSE i \in DOMAIN c : c[i].key = key ELSE 0

\* cacheGet without the age test
cacheGetNoExpiry(c, key, t) ==
    LET i == KeyIndex(c, key)
    IN IF i = 0 THEN [hit |-> FALSE, data |-> XNone, cache |-> c]
       ELSE [hit |-> TRUE, data |-> c[i].data, cache |-> c]

\* cacheGet: the data and the cache it leaves (an expired entry is deleted)
cacheGet(c, key, t) ==
    LET i == KeyIndex(c, key)
    IN IF i = 0 THEN [hit |-> FALSE, data |-> XNone, cache |-> c]
       ELSE IF t - c[i].ts > CACHE_TTL_MS
            THEN [hit |-> FALSE, data |-> XNone,
                  cache |-> SubSeq(c, 1, i - 1) \o SubSeq(c, i + 1, Len(c))]
            ELSE [hit |-> TRUE, data |-> c[i].data, cache |-> c]

\* cacheSet: Map.set keeps the place of a key it has; above 500 entries the
\* oldest are deleted until 400 are left
cacheSet(c, key, data, t) ==
    LET i == KeyIndex(c, key)
        e == [key |-> key, ts |-> t, data |-> data]
        put == IF i = 0 THEN Append(c, e) ELSE [c EXCEPT ![i] = e]
    IN IF Len(put) > CACHE_MAX
       THEN SubSeq(put, Len(put) - CACHE_KEEP + 1, Len(put))
       ELSE put

\* shapeForClient(parsed) for what callVisionFast reads off the picture
shapeForClient(content) ==
    [has_captcha |-> content = "cap",
     of |-> content,
     email |-> IF content = "cap" THEN XNone ELSE <<"mail", content>>,
     handle |-> IF content = "cap" THEN XNone ELSE <<"@", content>>]

\* persistMoreInfo: the outcome and the contacts collection it leaves
persistMoreInfo(docs, shaped, userId) ==
    LET byEmail == {i \in DOMAIN docs : docs[i].email = shaped.email}
        byHandle == {i \in DOMAIN docs : docs[i].handle = shaped.handle}
    IN IF userId = "" \/ shaped.email = XNone \/ shaped.handle = XNone
       THEN [outcome |-> "invalid", id |-> 0, docs |-> docs]
       ELSE IF byEmail # {} \/ byHandle # {}
       THEN [outcome |-> "duplicate",
             id |-> CHOOSE i \in byEmail \cup byHandle : TRUE, docs |-> docs]
       ELSE [outcome |-> "saved", id |-> Len(docs) + 1,
             docs |-> Append(docs, [email |-> shaped.email, handle |-> shaped.handle,
                                    userId |-> userId, youtube |-> XNone])]

\* enrichYouTubeForContact after the cache miss: yt is what the YouTube API
\* returned for the handle (XNone: no channel); target is the document to update
EnrichOut(docs, shaped, id, yt) ==
    LET found == {i \in DOMAIN docs :
                    docs[i].email = shaped.email /\ docs[i].handle = shaped.handle}
        target == IF id # 0 THEN id
                  ELSE IF found # {} THEN CHOOSE i \in found : TRUE ELSE 0
    IN IF yt = XNone THEN [saved |-> FALSE, id |-> 0, youtube |-> XNone, docs |-> docs]
       ELSE IF target = 0
       THEN [saved |-> FALSE, id |-> 0, youtube |-> yt, docs |-> docs]
       ELSE [saved |-> TRUE, id |-> target, youtube |-> yt,
             docs |-> [docs EXCEPT ![target].youtube = yt]]

XIdle == [pc |-> "idle"]
NoXResult == [none |-> TRUE]

\* one file of the batch: imagePartFromBuffer, cache key, cacheGet
XLookup ==
    /\ xTask = XIdle
    /\ xCount < MaxExtracts
    /\ xCount' = xCount + 1
    /\ \E f \in XFiles, u \in XUserIds :
         LET got == cacheGet(cache, FileCacheKey(f), cacheNow)
         IN /\ cache' = got.cache
            /\ xTask' = IF ~got.hit
                        THEN [pc |-> "vision", file |-> f, userId |-> u]
                        ELSE [pc |-> "persist", file |-> f, userId |-> u,
                              shaped |-> got.data, hit |-> TRUE]
    /\ UNCHANGED <<cacheNow, contacts, xResult>>
    /\ UNCHANGED <<baseVars, hamVars, imgVars, visVars, fixVars, acctVars,
                 ocrVars>>

\* callVisionFast returns or throws; shapeForClient; cacheSet
XVision ==
    /\ xTask.pc = "vision"
    /\ \/ /\ xTask' = [pc |-> "persist", file |-> xTask.file, userId |-> xTask.userId,
                       shaped |-> shapeForClient(xTask.file.content), hit |-> FALSE]
          /\ cache' = cacheSet(cache, FileCacheKey(xTask.file),
                               shapeForClient(xTask.file.content), cacheNow)
          /\ UNCHANGED xResult
       \/ /\ xTask' = XIdle
          /\ xResult' = [file |-> xTask.file, error |-> "vision"]
          /\ UNCHANGED cache
    /\ UNCHANGED <<cacheNow, contacts, xCount>>
    /\ UNCHANGED <<baseVars, hamVars, imgVars, visVars, fixVars, acctVars,
                 ocrVars>>

\* captcha check, persistMoreInfo
XPersist ==
    /\ xTask.pc = "persist"
    /\ IF xTask.shaped.has_captcha
       THEN /\ xTask' = XIdle
            /\ xResult' = [file |-> xTask.file, error |-> "captcha"]
            /\ UNCHANGED contacts
       ELSE LET db == persistMoreInfo(contacts, xTask.shaped, xTask.userId)
            IN /\ contacts' = db.docs
               /\ xTask' = [xTask EXCEPT !.pc = "enrich"] @@
                           [db |-> [outcome |-> db.outcome, id |-> db.id]]
               /\ UNCHANGED xResult
    /\ UNCHANGED <<cache, cacheNow, xCount>>
    /\ UNCHANGED <<baseVars, hamVars, imgVars, visVars, fixVars, acctVars,
                 ocrVars>>

\* enrichYouTubeForContact, then the item of the response
XEnrich ==
    /\ xTask.pc = "enrich"
    /\ LET key == YtCacheKey(xTask.shaped.handle)
           got == cacheGet(cache, key, cacheNow)
       IN IF got.hit
          THEN /\ cache' = got.cache
               /\ UNCHANGED contacts
               /\ xResult' = [file |-> xTask.file, of |-> xTask.shaped.of,
                              hit |-> xTask.hit, db |-> xTask.db,
                              youtube |-> got.data, ytHit |-> TRUE]
          ELSE \E yt \in {XNone, <<"channel", xTask.shaped.handle>>} :
                 LET out == EnrichOut(contacts, xTask.shaped, xTask.db.id, yt)
                     data == [saved |-> out.saved, id |-> out.id, youtube |-> out.youtube]
                 IN /\ contacts' = out.docs
                    /\ cache' = cacheSet(got.cache, key, data, cacheNow)
                    /\ xResult' = [file |-> xTask.file, of |-> xTask.shaped.of,
                                   hit |-> xTask.hit, db |-> xTask.db,
                                   youtube |-> data, ytHit |-> FALSE]
    /\ xTask' = XIdle
    /\ UNCHANGED <<cacheNow, xCount>>
    /\ UNCHANGED <<baseVars, hamVars, imgVars, visVars, fixVars, acctVars,
                 ocrVars>>

\* Date.now() moves on
Tick ==
    /\ \E d \in TickSteps :
         /\ cacheNow + d <= MaxTicks * CACHE_TTL_MS
         /\ cacheNow' = cacheNow + d
    /\ UNCHANGED <<cache, contacts, xTask, xResult, xCount>>
    /\ UNCHANGED <<baseVars, hamVars, imgVars, visVars, fixVars, acctVars,
                 ocrVars>>

XInit ==
    /\ cache = << >>
    /\ cacheNow = 0
    /\ contacts = << >>
    /\ xTask = XIdle
    /\ xResult = NoXResult
    /\ xCount = 0

XOff == XInit

XNext == XLookup \/ XVision \/ XPersist \/ XEnrich \/ Tick

(***************************************************************************)
(* fix-indexes.js: the index migration script                              *)
(***************************************************************************)
MaxFxRuns == 2

FxMissing == "<missing>"      \* the document has no such field

FxCollections == {"entries", "screenshots"}
FxDocsField(col) == IF col = "entries" THEN "entries" ELSE "shots"
FxIdxField(col) == IF col = "entries" THEN "eIdx" ELSE "sIdx"

\* uuidv4(): a value no document holds yet
FxUuids ==
    <<"uuid1", "uuid2", "uuid3", "uuid4", "uuid5", "uuid6", "uuid7", "uuid8">>

FxIndex(name, key, unique, filter) ==
    [name |-> name, key |-> key, unique |-> unique, filter |-> filter]

\* partialFilterExpression of an index / $match stage of the dedupe pipeline
FxMatches(d, filter) ==
    CASE filter = "type0" -> d.type = 0
      [] filter = "type1" -> d.type = 1
      [] filter = "verifiedComments" -> d.verified /\ d.commentIds # {}
      [] filter = "verifiedReplies" -> d.verified /\ d.replyIds # {}
      [] OTHER -> TRUE

\* values a field contributes to an index key or a $group key: a missing
\* field counts as null, an array contributes each of its elements
FxFieldValues(d, f) ==
    IF f \in {"commentIds", "replyIds"}
    THEN d[f]
    ELSE IF f = "type"
         THEN {d[f]}
         ELSE {IF d[f] = FxMissing THEN Null ELSE d[f]}

RECURSIVE FxKeyTuples(_, _)
FxKeyTuples(d, key) ==
    IF key = << >>
    THEN {<< >>}
    ELSE {<<v>> \o t : v \in FxFieldValues(d, Head(key)),
                       t \in FxKeyTuples(d, Tail(key))}

\* the documents satisfy the index's uniqueness constraint
FxUniqueHolds(ix, docs) ==
    ~ix.unique \/
    \A d1 \in docs, d2 \in docs :
        (d1._id # d2._id /\ FxMatches(d1, ix.filter) /\ FxMatches(d2, ix.filter))
            => FxKeyTuples(d1, ix.key) \cap FxKeyTuples(d2, ix.key) = {}

\* col.createIndex(key, options): an equal index is kept, an index of the
\* same name with other options or a duplicate key makes the call throw
createIndex(idx, docs, ix) ==
    IF ix \in idx
    THEN [ok |-> TRUE, idx |-> idx]
    ELSE IF (\E o \in idx : o.name = ix.name) \/ ~FxUniqueHolds(ix, docs)
         THEN [ok |-> FALSE, idx |-> idx]
         ELSE [ok |-> TRUE, idx |-> idx \cup {ix}]

ensureIndex(idx, docs, ix, apply) ==
    IF ~apply
    THEN [ok |-> TRUE, idx |-> idx]
    ELSE createIndex(idx, docs, ix)

dropIndexByName(idx, name, apply) ==
    IF ~(\E o \in idx : o.name = name)
    THEN idx
    ELSE IF ~apply
         THEN idx
         ELSE {o \in idx : o.name # name}

FxLegacyNames(col) ==
    IF col = "entries"
    THEN <<"linkId_1", "linkId_1_upiId_1", "linkId_1_upiId_1_type_1">>
    ELSE <<"userId_1_bundleSig_1", "userId_1_linkId_1_bundleSig_1",
           "linkId_1_handle_1">>

RECURSIVE FxDropAll(_, _, _)
FxDropAll(idx, names, apply) ==
    IF names = << >>
    THEN idx
    ELSE FxDropAll(dropIndexByName(idx, Head(names), apply), Tail(names), apply)

\* the query of backfillMissingUuidField without its "" branch
FxMissingQueryNoEmpty(d, fieldName) == d[fieldName] \in {FxMissing, Null}

\* the query q of backfillMissingUuidField
FxMissingQuery(d, fieldName) == d[fieldName] \in {FxMissing, Null, ""}

backfillMissingUuidField(docs, fieldName, apply, used) ==
    LET found == {d \in docs : FxMissingQuery(d, fieldName)}
        Rank(d) == Cardinality({e \in found : e._id <= d._id})
    IN IF found = {} \/ ~apply
       THEN [docs |-> docs, used |-> used]
       ELSE [docs |-> {IF d \in found
                       THEN [d EXCEPT ![fieldName] = FxUuids[used + Rank(d)]]
                       ELSE d : d \in docs},
             used |-> used + Cardinality(found)]

\* the comparator of dedupeByKeyKeepNewest: a sorts before b
FxSortsBefore(a, b) ==
    LET av == IF a.verified THEN 1 ELSE 0
        bv == IF b.verified THEN 1 ELSE 0
    IN IF bv # av THEN bv - av < 0 ELSE b.createdAt - a.createdAt < 0

\* the collections dedupeByKeyKeepNewest can leave behind: of a group of
\* equal keys one document that nothing sorts before is kept
dedupeByKeyKeepNewest(docs, matchStage, keyFields, apply, dedupe) ==
    LET matched == {d \in docs : FxMatches(d, matchStage)}
        Group(d) == {e \in matched : FxKeyTuples(e, keyFields) = FxKeyTuples(d, keyFields)}
        dups == {g \in {Group(d) : d \in matched} : Cardinality(g) > 1}
        Best(g) == {d \in g : \A e \in g : ~FxSortsBefore(e, d)}
        keeps == {k \in [dups -> docs] : \A g \in dups : k[g] \in Best(g)}
    IN IF dups = {} \/ ~apply \/ ~dedupe
       THEN {docs}
       ELSE {docs \ UNION {g \ {k[g]} : g \in dups} : k \in keeps}

\* the seven ensureIndex calls of main, in order
FxEnsureCalls ==
    << [col |-> "entries",
        ix |-> FxIndex("entryId_1", <<"entryId">>, TRUE, "none")],
       [col |-> "entries",
        ix |-> FxIndex("linkId_1_upiId_1", <<"linkId", "upiId">>, TRUE, "type0")],
       [col |-> "entries",
        ix |-> FxIndex("userId_1_linkId_1", <<"userId", "linkId">>, TRUE, "type1")],
       [col |-> "screenshots",
        ix |-> FxIndex("screenshotId_1", <<"screenshotId">>, TRUE, "none")],
       [col |-> "screenshots",
        ix |-> FxIndex("userId_1_linkId_1", <<"userId", "linkId">>, TRUE, "none")],
       [col |-> "screenshots",
        ix |-> FxIndex("linkId_1_commentIds_1", <<"linkId", "commentIds">>, TRUE,
                       "verifiedComments")],
       [col |-> "screenshots",
        ix |-> FxIndex("linkId_1_replyIds_1", <<"linkId", "replyIds">>, TRUE,
                       "verifiedReplies")] >>

FxEntry(id, type, linkId, upiId, userId, entryId, createdAt) ==
    [_id |-> id, type |-> type, linkId |-> linkId, upiId |-> upiId,
     userId |-> userId, entryId |-> entryId, createdAt |-> createdAt,
     verified |-> FALSE]

FxShot(id, userId, linkId, screenshotId, verified, createdAt, commentIds, replyIds) ==
    [_id |-> id, userId |-> userId, linkId |-> linkId,
     screenshotId |-> screenshotId, bundleSig |-> screenshotId, verified |-> verified,
     createdAt |-> createdAt, commentIds |-> commentIds, replyIds |-> replyIds]

\* documents the collections may hold before the first run
FxEntryPool ==
    { FxEntry(1, 0, "L1", "upi1", FxMissing, FxMissing, 1),
      FxEntry(2, 0, "L1", "upi1", FxMissing, "", 2),
      FxEntry(3, 1, "L1", "upi2", "U1", Null, 1),
      FxEntry(4, 1, "L1", "upi3", "U1", "e4", 1),
      FxEntry(5, 0, "L2", "upi1", FxMissing, "e4", 2) }

FxShotPool ==
    { FxShot(1, "U1", "L1", FxMissing, FALSE, 2, {}, {}),
      FxShot(2, "U1", "L1", "s2", TRUE, 1, {"c1"}, {}),
      FxShot(3, "U2", "L1", Null, TRUE, 1, {"c1", "c2"}, {"r1"}) }

\* index sets the collections may have before the first run
FxEntryIndexSets ==
    { {},
      {FxIndex("linkId_1", <<"linkId">>, TRUE, "type0"),
       FxIndex("entryId_1", <<"entryId">>, TRUE, "none")},
      {FxIndex("linkId_1_upiId_1", <<"linkId", "upiId">>, TRUE, "none"),
       FxIndex("linkId_1_upiId_1_type_1", <<"linkId", "upiId", "type">>, TRUE, "none")} }

FxShotIndexSets ==
    { {},
      {FxIndex("userId_1_linkId_1_bundleSig_1", <<"userId", "linkId", "bundleSig">>,
               TRUE, "none"),
       FxIndex("screenshotId_1", <<"screenshotId">>, TRUE, "none")},
      {FxIndex("userId_1_linkId_1", <<"userId", "linkId">>, FALSE, "none")} }

FxEmptyDb == [entries |-> {}, shots |-> {}, eIdx |-> {}, sIdx |-> {}]
FxAt(at, i, failed) == [at |-> at, i |-> i, failed |-> failed]
FxIdle == FxAt("idle", 0, FALSE)

\* node fix-indexes.js [--apply] [--dedupe]: connect, print the indexes
FxStart ==
    /\ fxPc = FxIdle
    /\ fxRun < MaxFxRuns
    /\ fxPc' = FxAt("drop", 0, FALSE)
    /\ UNCHANGED <<fxArgs, fxDb, fxRun, fxUuid, fxSnap>>
    /\ UNCHANGED <<baseVars, hamVars, imgVars, visVars, cacheVars, acctVars,
                 ocrVars>>

\* step 2: the six dropIndexByName calls
FxDrop ==
    /\ fxPc.at = "drop"
    /\ fxDb' = [fxDb EXCEPT
                  !.eIdx = FxDropAll(@, FxLegacyNames("entries"), fxArgs.apply),
                  !.sIdx = FxDropAll(@, FxLegacyNames("screenshots"), fxArgs.apply)]
    /\ fxPc' = FxAt("backfill", 1, FALSE)
    /\ UNCHANGED <<fxArgs, fxRun, fxUuid, fxSnap>>
    /\ UNCHANGED <<baseVars, hamVars, imgVars, visVars, cacheVars, acctVars,
                 ocrVars>>

\* step 3: backfillMissingUuidField(entries, "entryId"), then
\* backfillMissingUuidField(screenshots, "screenshotId")
FxBackfill ==
    /\ fxPc.at = "backfill"
    /\ LET col == IF fxPc.i = 1 THEN "entries" ELSE "screenshots"
           fieldName == IF fxPc.i = 1 THEN "entryId" ELSE "screenshotId"
           r == backfillMissingUuidField(fxDb[FxDocsField(col)], fieldName,
                                         fxArgs.apply, fxUuid)
       IN /\ fxDb' = [fxDb EXCEPT ![FxDocsField(col)] = r.docs]
          /\ fxUuid' = r.used
    /\ fxPc' = IF fxPc.i = 1 THEN FxAt("backfill", 2, FALSE)
               ELSE IF fxArgs.dedupe THEN FxAt("dedupe", 0, FALSE)
               ELSE FxAt("ensure", 1, FALSE)
    /\ UNCHANGED <<fxArgs, fxRun, fxSnap>>
    /\ UNCHANGED <<baseVars, hamVars, imgVars, visVars, cacheVars, acctVars,
                 ocrVars>>

\* step 4, under --dedupe: the three dedupeByKeyKeepNewest calls
FxDedupe ==
    /\ fxPc.at = "dedupe"
    /\ \E e0 \in dedupeByKeyKeepNewest(fxDb.entries, "type0", <<"linkId", "upiId">>,
                                       fxArgs.apply, fxArgs.dedupe) :
       \E e1 \in dedupeByKeyKeepNewest(e0, "type1", <<"userId", "linkId">>,
                                       fxArgs.apply, fxArgs.dedupe) :
       \E s \in dedupeByKeyKeepNewest(fxDb.shots, "all", <<"userId", "linkId">>,
                                      fxArgs.apply, fxArgs.dedupe) :
         fxDb' = [fxDb EXCEPT !.entries = e1, !.shots = s]
    /\ fxPc' = FxAt("ensure", 1, FALSE)
    /\ UNCHANGED <<fxArgs, fxRun, fxUuid, fxSnap>>
    /\ UNCHANGED <<baseVars, hamVars, imgVars, visVars, cacheVars, acctVars,
                 ocrVars>>

\* step 5: the next ensureIndex call; a createIndex that throws ends the run
\* in the catch block
FxEnsure ==
    /\ fxPc.at = "ensure"
    /\ LET call == FxEnsureCalls[fxPc.i]
           r == ensureIndex(fxDb[FxIdxField(call.col)], fxDb[FxDocsField(call.col)],
                            call.ix, fxArgs.apply)
       IN /\ fxDb' = [fxDb EXCEPT ![FxIdxField(call.col)] = r.idx]
          /\ fxPc' = IF ~r.ok THEN FxAt("end", 0, TRUE)
                     ELSE IF fxPc.i < Len(FxEnsureCalls)
                          THEN FxAt("ensure", fxPc.i + 1, FALSE)
                          ELSE FxAt("end", 0, FALSE)
    /\ UNCHANGED <<fxArgs, fxRun, fxUuid, fxSnap>>
    /\ UNCHANGED <<baseVars, hamVars, imgVars, visVars, cacheVars, acctVars,
                 ocrVars>>

\* step 6 or the catch block, then closeConnection
FxEnd ==
    /\ fxPc.at = "end"
    /\ fxPc' = FxIdle
    /\ fxRun' = fxRun + 1
    /\ fxSnap' = IF fxSnap.taken THEN fxSnap ELSE [taken |-> TRUE, db |-> fxDb]
    /\ UNCHANGED <<fxArgs, fxDb, fxUuid>>
    /\ UNCHANGED <<baseVars, hamVars, imgVars, visVars, cacheVars, acctVars,
                 ocrVars>>

FxConsistent(db) ==
    /\ \A ix \in db.eIdx : FxUniqueHolds(ix, db.entries)
    /\ \A ix \in db.sIdx : FxUniqueHolds(ix, db.shots)

FxInit ==
    /\ fxArgs \in [apply : BOOLEAN, dedupe : BOOLEAN]
    /\ fxDb \in [entries : SUBSET FxEntryPool, shots : SUBSET FxShotPool,
                 eIdx : FxEntryIndexSets, sIdx : FxShotIndexSets]
    /\ FxConsistent(fxDb)
    /\ fxPc = FxIdle
    /\ fxRun = 0
    /\ fxUuid = 0
    /\ fxSnap = [taken |-> FALSE, db |-> fxDb]

FxOff ==
    /\ fxArgs = [apply |-> FALSE, dedupe |-> FALSE]
    /\ fxDb = FxEmptyDb
    /\ fxPc = FxIdle
    /\ fxRun = 0
    /\ fxUuid = 0
    /\ fxSnap = [taken |-> FALSE, db |-> FxEmptyDb]

FxNext == FxStart \/ FxDrop \/ FxBackfill \/ FxDedupe \/ FxEnsure \/ FxEnd

(***************************************************************************)
(* Employee entries (entryController.js): createEmployeeEntry, updateEntry *)
(* and setEntryStatus on one type-0 entry, one request at a time           *)
(***************************************************************************)
MaxAcctRequests == 4
MaxAmount == 3

AcctAmounts == 0..MaxAmount
AcctEmployeeIds == {"e1", "e0"}        \* "e0" is an employeeId no document has

NoAcctEntry == [exists |-> FALSE, amount |-> 0, status |-> Pending]
NoAcctResp == [status |-> 0, message |-> "none"]

\* the Entry document as setEntryStatus reads it
AcctDoc ==
    [type |-> 0, employeeId |-> "e1", amount |-> acctEntry.amount,
     worksUnder |-> Null, totalAmount |-> Null]

AcctRespond(status, message) ==
    /\ acctResp' = [status |-> status, message |-> message]
    /\ acctCount' = acctCount + 1

\* createEmployeeEntry: Employee.findOne, the balance check, Entry.exists,
\* Entry.create, then emp.balance -= amount and emp.save()
CreateEmployeeEntry ==
    /\ acctCount < MaxAcctRequests
    /\ \E e \in AcctEmployeeIds, amount \in AcctAmounts :
         IF e \notin EmployeeIds
         THEN /\ AcctRespond(404, "Employee not found")
              /\ UNCHANGED <<acctBalance, acctEntry>>
         ELSE IF acctBalance < amount
         THEN /\ AcctRespond(400, "Insufficient balance")
              /\ UNCHANGED <<acctBalance, acctEntry>>
         ELSE IF acctEntry.exists
         THEN /\ AcctRespond(400, "This UPI ID has already been used for this link")
              /\ UNCHANGED <<acctBalance, acctEntry>>
         ELSE /\ acctEntry' = [exists |-> TRUE, amount |-> amount, status |-> Pending]
              /\ acctBalance' = acctBalance - amount
              /\ AcctRespond(201, "Employee entry submitted")
    /\ UNCHANGED acctOpening
    /\ UNCHANGED <<baseVars, hamVars, imgVars, visVars, cacheVars, fixVars,
                 ocrVars>>

\* updateEntry on the type-0 entry: the amount branch and entry.save()
UpdateEntry ==
    /\ acctCount < MaxAcctRequests
    /\ \E amount \in AcctAmounts :
         IF ~acctEntry.exists
         THEN /\ AcctRespond(404, "Entry not found")
              /\ UNCHANGED <<acctBalance, acctEntry>>
         ELSE IF acctEntry.amount # amount
         THEN LET diff == amount - acctEntry.amount
              IN IF diff > 0 /\ acctBalance < diff
                 THEN /\ AcctRespond(400, "Insufficient balance")
                      /\ UNCHANGED <<acctBalance, acctEntry>>
                 ELSE /\ acctEntry' = [acctEntry EXCEPT !.amount = amount]
                      /\ acctBalance' = acctBalance - diff
                      /\ AcctRespond(200, "Entry updated")
         ELSE /\ AcctRespond(200, "No changes detected")
              /\ UNCHANGED <<acctBalance, acctEntry>>
    /\ UNCHANGED acctOpening
    /\ UNCHANGED <<baseVars, hamVars, imgVars, visVars, cacheVars, fixVars,
                 ocrVars>>

\* setEntryStatus({ entryId, approve: 1 })
ApproveEntry ==
    /\ acctCount < MaxAcctRequests
    /\ IF ~acctEntry.exists
       THEN /\ AcctRespond(404, "Entry not found")
            /\ UNCHANGED <<acctBalance, acctEntry>>
       ELSE IF AlreadyResolved(acctEntry.status, NewStatus(1))
       THEN /\ AcctRespond(200, "Already approved")
            /\ UNCHANGED <<acctBalance, acctEntry>>
       ELSE IF CannotDetermine(AcctDoc)
       THEN /\ AcctRespond(400, "Cannot determine deduction or employee")
            /\ UNCHANGED <<acctBalance, acctEntry>>
       ELSE IF acctBalance < Deduction(AcctDoc)
       THEN /\ AcctRespond(400, "Insufficient balance")
            /\ UNCHANGED <<acctBalance, acctEntry>>
       ELSE /\ acctBalance' = acctBalance - Deduction(AcctDoc)
            /\ acctEntry' = [acctEntry EXCEPT !.status = NewStatus(1)]
            /\ AcctRespond(200, "Entry approved")
    /\ UNCHANGED acctOpening
    /\ UNCHANGED <<baseVars, hamVars, imgVars, visVars, cacheVars, fixVars,
                 ocrVars>>

AcctInit ==
    /\ acctBalance \in 0..MaxBalance
    /\ acctOpening = acctBalance
    /\ acctEntry = NoAcctEntry
    /\ acctResp = NoAcctResp
    /\ acctCount = 0

AcctOff ==
    /\ acctBalance = 0
    /\ acctOpening = 0
    /\ acctEntry = NoAcctEntry
    /\ acctResp = NoAcctResp
    /\ acctCount = 0

AcctNext == CreateEmployeeEntry \/ UpdateEntry \/ ApproveEntry

(***************************************************************************)
(* services/ytShortsAnalyzer.js: the OCR analyzer                          *)
(*                                                                         *)
(* A line of OCR text is the sequence of its blank-separated tokens; a     *)
(* text is the sequence of the tokens of the lines joined by blanks.       *)
(* ocrLines drops the empty lines, so no line is empty.                    *)
(***************************************************************************)
MaxOcrLines == 4
MaxRareLines == 3

\* the lines a side is made of: the usual ones, up to MaxOcrLines of them, and
\* the rare ones (a handle with a trailing dot, a lone @, a stop phrase)
OcrCommonLines == { <<"@al">>, <<"@bo">>, <<"nice", "video">>, <<"7", "great">> }
OcrRareLines ==
    { <<"@al.">>, <<"@">>, <<"al", "nice">>, <<"reply">>, <<"nice", "video">> }

\* user_id: null
NoUser == ""

\* HANDLE_RE_INLINE on a token, and '@' + cleanToken(m[1]) for the match
InlineHandle == ("@al" :> "@al") @@ ("@bo" :> "@bo") @@ ("@al." :> "@al")

\* '@' + cleanToken(tok) for the first token of the line after a lone @
AtHandle ==
    ("al" :> "@al") @@ ("nice" :> "@nice") @@ ("7" :> "@7") @@
    ("reply" :> "@reply") @@ ("@" :> "@@") @@ ("@al" :> "@@al") @@
    ("@bo" :> "@@bo") @@ ("@al." :> "@@al")

\* the tokens ISOLATED_NUM_RE and SINGLE_LETTER_RE delete
IsolatedTokens == {"7"}
\* the tokens a stop phrase starts, and the tokens of at most two characters
StopTokens == {"reply"}
ShortTokens == {"7", "al", "@"}

\* HANDLE_RE_INLINE.test(line)
HasInlineHandle(line) == \E k \in DOMAIN line : line[k] \in DOMAIN InlineHandle

\* line.trim() === '@'
IsLoneAt(line) == line = <<"@">>

\* startsWithStop(line)
startsWithStop(line) == line[1] \in StopTokens

joinHandle(lineIdx, lines) ==
    LET line == lines[lineIdx]
    IN IF HasInlineHandle(line)
       THEN LET k == CHOOSE k \in DOMAIN line :
                       /\ line[k] \in DOMAIN InlineHandle
                       /\ \A j \in 1..(k - 1) : line[j] \notin DOMAIN InlineHandle
            IN [handle |-> InlineHandle[line[k]], newIdx |-> lineIdx]
       ELSE IF IsLoneAt(line) /\ lineIdx + 1 <= Len(lines)
       THEN [handle |-> AtHandle[lines[lineIdx + 1][1]], newIdx |-> lineIdx + 1]
       ELSE [handle |-> NoUser, newIdx |-> lineIdx]

\* cleanText on the tokens of a text
cleanText(text) ==
    LET Kept(tok) == tok \notin IsolatedTokens
    IN SelectSeq(text, Kept)

RECURSIVE DropShortTail(_)
DropShortTail(toks) ==
    IF toks # << >> /\ toks[Len(toks)] \in ShortTokens
    THEN DropShortTail(SubSeq(toks, 1, Len(toks) - 1))
    ELSE toks

\* refineText: cut at the first stop phrase, drop the short trailing tokens
refineText(text) ==
    LET stops == {k \in DOMAIN text : text[k] \in StopTokens}
        cut == IF stops = {} THEN Len(text)
               ELSE (CHOOSE k \in stops : \A j \in stops : k <= j) - 1
    IN DropShortTail(SubSeq(text, 1, cut))

\* the inner loop of extractUserTexts: the index it stops at
RECURSIVE BlockEnd(_, _)
BlockEnd(lines, i) ==
    IF i > Len(lines) THEN i
    ELSE IF HasInlineHandle(lines[i]) \/ IsLoneAt(lines[i]) THEN i
    ELSE IF startsWithStop(lines[i]) THEN i
    ELSE BlockEnd(lines, i + 1)

RECURSIVE JoinLines(_, _, _)
JoinLines(lines, from, to) ==
    IF from > to THEN << >> ELSE lines[from] \o JoinLines(lines, from + 1, to)

\* the outer loop of extractUserTexts: one block for each handle it meets,
\* with the cleaned text collected for it (empty when nothing is left)
RECURSIVE OcrBlocks(_, _)
OcrBlocks(lines, i) ==
    IF i > Len(lines) THEN << >>
    ELSE LET jh == joinHandle(i, lines)
         IN IF jh.handle # NoUser
            THEN LET end == BlockEnd(lines, jh.newIdx + 1)
                     cleaned == cleanText(JoinLines(lines, jh.newIdx + 1, end - 1))
                 IN <<[handle |-> jh.handle, text |-> cleaned]>>
                        \o OcrBlocks(lines, end)
            ELSE OcrBlocks(lines, i + 1)

\* byUser: the handles in the order of their first non-empty text, each with
\* its texts in order
RECURSIVE GroupBlocks(_, _)
GroupBlocks(blocks, byUser) ==
    IF blocks = << >> THEN byUser
    ELSE LET b == Head(blocks)
             at == {k \in DOMAIN byUser : byUser[k].handle = b.handle}
         IN IF b.text = << >> THEN GroupBlocks(Tail(blocks), byUser)
            ELSE IF at = {}
            THEN GroupBlocks(Tail(blocks),
                             Append(byUser, [handle |-> b.handle, texts |-> <<b.text>>]))
            ELSE LET k == CHOOSE k \in at : TRUE
                 IN GroupBlocks(Tail(blocks),
                                [byUser EXCEPT ![k].texts = Append(@, b.text)])

extractUserTexts(lines) == GroupBlocks(OcrBlocks(lines, 1), << >>)

MapHas(map, uid) == \E k \in DOMAIN map : map[k].handle = uid
MapGet(map, uid) == map[CHOOSE k \in DOMAIN map : map[k].handle = uid].texts

\* pickUser that takes the first author of the comments
pickUserOfComments(commentsMap, repliesMap) ==
    IF commentsMap = << >> THEN NoUser ELSE commentsMap[1].handle

pickUser(commentsMap, repliesMap) ==
    LET both == {k \in DOMAIN commentsMap : MapHas(repliesMap, commentsMap[k].handle)}
    IN IF both = {} THEN NoUser
       ELSE commentsMap[CHOOSE k \in both : \A j \in both : k <= j].handle

analyzeBundle(commentsRaw, repliesRaw, liked) ==
    LET commentMap == extractUserTexts(commentsRaw)
        replyMap == extractUserTexts(repliesRaw)
        uid == pickUser(commentMap, replyMap)
        own(map) == IF uid # NoUser /\ MapHas(map, uid) THEN MapGet(map, uid) ELSE << >>
        comments == [k \in DOMAIN own(commentMap) |-> refineText(own(commentMap)[k])]
        replies == [k \in DOMAIN own(replyMap) |-> refineText(own(replyMap)[k])]
    IN [liked |-> liked,
        user_id |-> uid,
        comment |-> comments,
        replies |-> replies,
        verified |-> liked /\ Len(comments) >= 2 /\ Len(replies) >= 2]

RECURSIVE SeqsUpTo(_, _)
SeqsUpTo(S, n) ==
    IF n = 0 THEN { << >> }
    ELSE LET shorter == SeqsUpTo(S, n - 1)
         IN shorter \cup {Append(q, x) : q \in shorter, x \in S}

\* what ocrLines can read off the two images of a side
OcrSides ==
    SeqsUpTo(OcrCommonLines, MaxOcrLines) \cup SeqsUpTo(OcrRareLines, MaxRareLines)

NoOcrResult == [none |-> TRUE]

\* analyzeBundle on the bundle: detectLike answers, the lines are grouped
OcrAnalyze ==
    /\ ocrOut = NoOcrResult
    /\ \E liked \in BOOLEAN :
         /\ ocrIn' = [ocrIn EXCEPT !.liked = liked]
         /\ ocrOut' = analyzeBundle(ocrIn.comments, ocrIn.replies, liked)
    /\ UNCHANGED <<baseVars, hamVars, imgVars, visVars, cacheVars, fixVars, acctVars>>

OcrInit ==
    /\ ocrIn \in [comments : OcrSides, replies : OcrSides, liked : {FALSE}]
    /\ ocrOut = NoOcrResult

OcrOff ==
    /\ ocrIn = [comments |-> << >>, replies |-> << >>, liked |-> FALSE]
    /\ ocrOut = NoOcrResult

OcrNext == OcrAnalyze

ToolsOff == HamOff /\ ImgOff /\ VisOff /\ XOff /\ FxOff /\ AcctOff /\ OcrOff

(***************************************************************************)
(* Specifications of the settlement triggers                               *)
(***************************************************************************)
\* A specification that does not run a trigger keeps its slots closed.
DeductOff ==
    /\ histCount = [k \in PayoutKeys |-> 0]
    /\ payoutCount = [k \in PayoutKeys |-> 0]
    /\ dPc = [r \in DSlots |-> "off"]
    /\ dReq = [r \in DSlots |-> NoReq]
    /\ dPend = [r \in DSlots |-> {}]
    /\ dErr = [r \in DSlots |-> "none"]
    /\ dResp = [r \in DSlots |-> "none"]

StatusOff ==
    /\ entryStatus = [n \in EntryIds |-> Pending]
    /\ sPc = [r \in SSlots |-> "off"]
    /\ sReq = [r \in SSlots |-> NoReq]
    /\ sSeen = [r \in SSlots |-> Pending]
    /\ sResp = [r \in SSlots |-> "none"]

DeductNext ==
    \E r \in DSlots :
        \/ DeductStart(r)
        \/ TxnUpdateEmployee(r)
        \/ TxnBalanceHistory(r)
        \/ TxnPayoutCreate(r)
        \/ TxnCommit(r)
        \/ TxnFail(r)

StatusNext ==
    \E r \in SSlots :
        \/ StatusStart(r)
        \/ StatusFindEmployee(r)
        \/ StatusDebit(r)
        \/ StatusUpdate(r)
        \/ StatusReadBalance(r)

InitDeduct ==
    SettleInit /\ DeductInit /\ StatusOff /\ RulesIdle /\ EntryOff /\ LinkOff
    /\ ToolsOff
InitStatus ==
    SettleInit /\ DeductOff /\ StatusInit /\ RulesIdle /\ EntryOff /\ LinkOff
    /\ ToolsOff
InitEntry ==
    /\ balance = [e \in EmployeeIds |-> 0]
    /\ openingBalance = balance
    /\ DeductOff
    /\ StatusOff
    /\ RulesIdle
    /\ EntryInit
    /\ LinkOff
    /\ ToolsOff
InitRules ==
    /\ balance = [e \in EmployeeIds |-> 0]
    /\ openingBalance = balance
    /\ DeductOff
    /\ StatusOff
    /\ RulesInit
    /\ EntryOff
    /\ LinkOff
    /\ ToolsOff

SpecDeduct == InitDeduct /\ [][DeductNext]_vars
SpecStatus == InitStatus /\ [][StatusNext]_vars
SpecRules == InitRules /\ [][RulesNext]_vars
SpecEntry == InitEntry /\ [][EntryNext]_vars
SpecRace == InitEntry /\ [][RaceNext]_vars
SpecSeq == InitEntry /\ [][SeqNext]_vars
SpecPair == InitEntry /\ [][PairNext]_vars

InitLink ==
    /\ balance = [e \in EmployeeIds |-> 0]
    /\ openingBalance = balance
    /\ DeductOff
    /\ StatusOff
    /\ RulesIdle
    /\ EntryOff
    /\ LinkOff
    /\ ToolsOff
SpecLink == InitLink /\ [][LinkNext]_vars


\* One request of each trigger in flight over the same Employee collection.
InitSettle ==
    /\ SettleInit
    /\ DeductInit
    /\ StatusInit
    /\ RulesIdle
    /\ EntryOff
    /\ LinkOff
    /\ ToolsOff

SettleNext ==
    \/ DeductStart(1)
    \/ TxnUpdateEmployee(1)
    \/ TxnBalanceHistory(1)
    \/ TxnPayoutCreate(1)
    \/ TxnCommit(1)
    \/ TxnFail(1)
    \/ StatusStart(1)
    \/ StatusFindEmployee(1)
    \/ StatusDebit(1)
    \/ StatusUpdate(1)
    \/ StatusReadBalance(1)

SpecSettle == InitSettle /\ [][SettleNext]_vars

(***************************************************************************)
(* Specifications of the image pipeline's parts                            *)
(***************************************************************************)
BaseOff ==
    /\ balance = [e \in EmployeeIds |-> 0]
    /\ openingBalance = balance
    /\ DeductOff
    /\ StatusOff
    /\ RulesIdle
    /\ EntryOff
    /\ LinkOff

InitHam == BaseOff /\ HamInit /\ ImgOff /\ VisOff /\ XOff /\ FxOff
    /\ AcctOff /\ OcrOff
SpecHam == InitHam /\ [][HamNext]_vars

InitImg == BaseOff /\ HamOff /\ ImgInit /\ VisOff /\ XOff /\ FxOff
    /\ AcctOff /\ OcrOff
SpecImg == InitImg /\ [][ImgNext]_vars
SpecImgRace == InitImg /\ [][ImgRaceNext]_vars

InitVis == BaseOff /\ HamOff /\ ImgOff /\ VisInit /\ XOff /\ FxOff
    /\ AcctOff /\ OcrOff
SpecVis == InitVis /\ [][VisNext]_vars

InitExtract == BaseOff /\ HamOff /\ ImgOff /\ VisOff /\ XInit /\ FxOff
    /\ AcctOff /\ OcrOff
SpecExtract == InitExtract /\ [][XNext]_vars

InitFix == BaseOff /\ HamOff /\ ImgOff /\ VisOff /\ XOff /\ FxInit
    /\ AcctOff /\ OcrOff
SpecFix == InitFix /\ [][FxNext]_vars

InitAcct == BaseOff /\ HamOff /\ ImgOff /\ VisOff /\ XOff /\ FxOff /\ AcctInit
    /\ OcrOff
SpecAcct == InitAcct /\ [][AcctNext]_vars

InitOcr == BaseOff /\ HamOff /\ ImgOff /\ VisOff /\ XOff /\ FxOff /\ AcctOff
    /\ OcrInit
SpecOcr == InitOcr /\ [][OcrNext]_vars

(***************************************************************************)
(* Properties of deductEmployeeBalanceForTask                              *)
(***************************************************************************)
SameKeyDone(r1, r2) ==
    /\ r1 # r2
    /\ dPc[r1] = "done" /\ dPc[r2] = "done"
    /\ dReq[r1] # NoReq /\ dReq[r1] = dReq[r2]

\* Every debit of every employee is matched by the payouts recorded.
BalanceAccounted(bal, open, pc) ==
    \A e \in EmployeeIds : bal[e] = open[e] - PaidOut(e, pc)

\* C4: a call that finds the Payout of its (employeeId, userId, taskId)
\* answers 'Already paid' at once and writes nothing; no key ever has more
\* than one Payout, each Payout has exactly one BalanceHistory line, and the
\* balance is lower by exactly the amounts of the Payouts recorded.
C4_SequentialIdempotent ==
    [][ /\ \A r \in DSlots :
              ( /\ dPc[r] = "idle" /\ dPc'[r] # "idle"
                /\ dReq'[r] # NoReq
                /\ payoutCount[KeyOf(dReq'[r])] > 0 )
              => ( /\ dPc'[r] = "done"
                   /\ dResp'[r] = "AlreadyPaid"
                   /\ UNCHANGED <<balance, histCount, payoutCount>> )
        /\ \A k \in PayoutKeys :
              payoutCount'[k] <= 1 /\ histCount'[k] = payoutCount'[k]
        /\ BalanceAccounted(balance', openingBalance', payoutCount')
      ]_vars

\* C4 witness: one call deducted, a later call for the same key was answered
\* 'Already paid' by the short-circuit, and the balance is lower by one amount.
C4_Witness ==
    \E r1, r2 \in DSlots :
        /\ SameKeyDone(r1, r2)
        /\ dResp[r1] = "Deducted" /\ dResp[r2] = "AlreadyPaid"
        /\ balance[dReq[r1].employeeId] =
              openingBalance[dReq[r1].employeeId] - TaskAmount[dReq[r1].taskId]

\* C5: when two requests for the same key both passed the Payout.findOne
\* check and one of them deducted, exactly one Payout and one BalanceHistory
\* line exist for the key, the balance is lower by exactly one amount for it,
\* the other request did not deduct, and a request that hit the duplicate key
\* on the payout insert is answered 'Already paid'.
C5_ConcurrentIdempotent ==
    \A r1, r2 \in DSlots :
        ( /\ SameKeyDone(r1, r2)
          /\ dResp[r1] = "Deducted"
          /\ dResp[r2] # "AlreadyPaid" )
        => ( /\ payoutCount[KeyOf(dReq[r1])] = 1
             /\ histCount[KeyOf(dReq[r1])] = 1
             /\ BalanceAccounted(balance, openingBalance, payoutCount)
             /\ dResp[r2] \in {"AlreadyPaidRace", "InsufficientBalance", "Error"}
             /\ (dErr[r2] = "E11000" => dResp[r2] = "AlreadyPaidRace") )

\* C5 witness: both requests passed the check, one deducted, the other hit
\* the duplicate key and was answered 'Already paid'.
C5_Witness ==
    \E r1, r2 \in DSlots :
        /\ SameKeyDone(r1, r2)
        /\ dResp[r1] = "Deducted"
        /\ dErr[r2] = "E11000" /\ dResp[r2] = "AlreadyPaidRace"
        /\ payoutCount[KeyOf(dReq[r1])] = 1

\* C6: in every state the BalanceHistory lines and Payouts of a key are equal
\* in number and the balance is lower by exactly the Payouts recorded (all
\* three writes present or all absent); a request that leaves its transaction
\* without the success response leaves balance, ledger and payouts as they were.
C6_SettlementAtomic ==
    [][ /\ \A k \in PayoutKeys : histCount'[k] = payoutCount'[k]
        /\ BalanceAccounted(balance', openingBalance', payoutCount')
        /\ \A r \in DSlots :
              (InTxn(r) /\ dPc'[r] = "done" /\ dResp'[r] # "Deducted")
              => UNCHANGED <<balance, histCount, payoutCount>>
      ]_vars

\* C6 witness: a request failed inside its transaction after the decrement,
\* and no debit, ledger line or payout of its key exists.
C6_Witness ==
    \E r \in DSlots :
        /\ dPc[r] = "done" /\ dErr[r] = "STORAGE"
        /\ payoutCount[KeyOf(dReq[r])] = 0
        /\ histCount[KeyOf(dReq[r])] = 0
        /\ balance = openingBalance

\* C7: no employee balance is ever negative.
C7_BalanceNonNegative == \A e \in EmployeeIds : balance[e] >= 0

\* C7 witness: the balance was debited down to zero and a further request
\* was refused for insufficient funds.
C7_Witness ==
    /\ balance["e1"] = 0
    /\ openingBalance["e1"] > 0
    /\ \E r \in DSlots : dResp[r] = "InsufficientBalance"

(***************************************************************************)
(* Properties of setEntryStatus                                            *)
(***************************************************************************)
\* C8: once an entry is approved or rejected no step changes its status, and
\* a balance is debited only for an entry that is still pending.
C8_OneWayTerminal ==
    [][ /\ \A n \in EntryIds :
              entryStatus[n] \in {Approved, Rejected} => entryStatus'[n] = entryStatus[n]
        /\ \A r \in SSlots :
              (sPc[r] = "debit" /\ sPc'[r] # "debit")
              => entryStatus[sReq[r].entryId] = Pending
      ]_vars

\* C9: a call whose requested status is the one the entry has is answered
\* 'Already approved' / 'Already rejected' at once and changes neither the
\* entry statuses nor any balance.
C9_RetriggerNoOp ==
    [][ \A r \in SSlots :
          ( /\ sPc[r] = "idle" /\ sPc'[r] # "idle"
            /\ sReq'[r] # NoReq
            /\ entryStatus[sReq'[r].entryId] = NewStatus(sReq'[r].approve) )
          => ( /\ sPc'[r] = "done"
               /\ sResp'[r] = AlreadyMessage(sReq'[r].approve)
               /\ UNCHANGED <<entryStatus, balance>> )
      ]_vars

\* C9 witness: an approval of an entry that was already approved when the
\* call read it was answered 'Already approved'.
C9_Witness ==
    \E r \in SSlots :
        /\ sPc[r] = "done" /\ sReq[r] # NoReq
        /\ sReq[r].approve = 1 /\ sSeen[r] = Approved
        /\ sResp[r] = "AlreadyApproved"

SettleFailures == {"EmployeeNotFound", "InsufficientBalance"}

\* C10: a setEntryStatus approval answered 'employee not found' or
\* 'insufficient balance' had written nothing before and writes nothing with
\* that answer; a deductEmployeeBalanceForTask answered one of the two leaves
\* balance, ledger and payouts unchanged; and in both the answer names the
\* cause: 'not found' only for a missing employee, 'insufficient' only for an
\* existing employee whose balance is below the amount.
C10_FailureNotPartial ==
    [][ /\ \A r \in SSlots :
              (sPc[r] # "done" /\ sResp'[r] \in SettleFailures)
              => LET doc == EntryDocs[sReq[r].entryId]
                     e == TargetEmployee(doc)
                 IN /\ sPc[r] = "findEmp"
                    /\ UNCHANGED <<entryStatus, balance>>
                    /\ (sResp'[r] = "EmployeeNotFound") = (e \notin EmployeeIds)
                    /\ (sResp'[r] = "InsufficientBalance")
                         => balance[e] < Deduction(doc)
        /\ \A r \in SSlots :
              (sPc[r] = "idle" /\ sPc'[r] # "idle")
              => UNCHANGED <<entryStatus, balance>>
        /\ \A r \in DSlots :
              (dPc[r] # "done" /\ dResp'[r] \in SettleFailures)
              => LET e == dReq[r].employeeId
                 IN /\ dPc[r] = "txn"
                    /\ UNCHANGED <<balance, histCount, payoutCount>>
                    /\ (dResp'[r] = "EmployeeNotFound") = (e \notin EmployeeIds)
                    /\ (dResp'[r] = "InsufficientBalance")
                         => balance[e] < TaskAmount[dReq[r].taskId]
      ]_vars

\* C10 witness: an approval refused for insufficient balance and a debit
\* refused for a missing employee, with every balance and status untouched.
C10_Witness ==
    /\ sResp[1] = "InsufficientBalance"
    /\ dResp[1] = "EmployeeNotFound"
    /\ balance = openingBalance
    /\ \A n \in EntryIds : entryStatus[n] = Pending
    /\ \A k \in PayoutKeys : payoutCount[k] = 0 /\ histCount[k] = 0


(***************************************************************************)
(* Properties of the verified decision                                     *)
(***************************************************************************)
\* C3: the decision is true exactly when the counts meet the link's minimums
\* and the like is present when the link requires it.
C3_RuleCorrectness ==
    ruleOut.decided =>
        ( ruleOut.verified <=>
            ( /\ ruleIn.commentCount >= ruleIn.minComments
              /\ ruleIn.replyCount >= ruleIn.minReplies
              /\ (ruleIn.requireLike => ruleIn.liked) ) )

(***************************************************************************)
(* Properties of createUserEntry, permalink/API generation                 *)
(***************************************************************************)
ReuseErrors ==
    {"ALREADY_USED_BY_OTHER_USER", "COMMENT_ALREADY_USED", "REPLY_ALREADY_USED"}

\* No two verified documents of different users on one link list the same
\* comment id or the same reply id.
Exclusive(docs) ==
    \A i, j \in DOMAIN docs :
        ( /\ i # j
          /\ docs[i].userId # docs[j].userId
          /\ docs[i].linkId = docs[j].linkId
          /\ docs[i].verified /\ docs[j].verified )
        => /\ docs[i].commentIds \cap docs[j].commentIds = {}
           /\ docs[i].replyIds \cap docs[j].replyIds = {}

\* The verified evidence of request q lists an id that a verified document of
\* another user on the same link lists.
Contested(q, docs) ==
    ReuseByOtherUser(docs, q.userId, q.linkId, q.commentIds, q.replyIds) # {}

\* C1: in every interleaving, verified records of two different users on one
\* link never list the same comment id or reply id; a request whose verified
\* evidence is already listed by another user's record when it runs its reuse
\* check or its write changes nothing and is answered with a reuse error (or
\* with the persist error when the write fails for another reason).
C1_Exclusivity ==
    [][ /\ Exclusive(screenshots')
        /\ \A r \in Handlers :
             ( /\ ePc[r] \in {"reuse", "persist"}
               /\ ePc'[r] # ePc[r]
               /\ Contested(eReq[r], screenshots) )
             => /\ screenshots' = screenshots
                /\ entries' = entries
                /\ ePc'[r] = "idle"
                /\ eResp'[r].code \in ReuseErrors \cup {"VERIFICATION_PERSIST_ERROR"}
      ]_vars

\* C1 witness: two users raced on comment c1 of link L1; one holds the only
\* record, the other was refused by the unique index.
C1_Witness ==
    /\ eResp["h1"].code = "OK" /\ eResp["h1"].userId = "u1"
    /\ eResp["h1"].linkId = "L1"
    /\ eResp["h2"].code = "COMMENT_ALREADY_USED"
    /\ Len(screenshots) = 1
    /\ screenshots[1].userId = "u1" /\ screenshots[1].verified
    /\ "c1" \in screenshots[1].commentIds

CountFor(docs, u, l) ==
    Cardinality({i \in DOMAIN docs : docs[i].userId = u /\ docs[i].linkId = l})

\* C2: there is never more than one screenshot document and never more than
\* one type-1 entry per (userId, linkId); a successful write of a request
\* whose user already has a document on the link rewrites that document in
\* place; when a request is answered 201 there is exactly one document and
\* exactly one entry for its (userId, linkId).
C2_OneRecordPerUserLink ==
    [][ /\ \A u \in UserIds, l \in LinkIds :
             /\ CountFor(screenshots', u, l) <= 1
             /\ CountFor(entries', u, l) <= 1
        /\ \A r \in Handlers :
             ( /\ ePc[r] = "persist" /\ ePc'[r] = "entryFind"
               /\ CountFor(screenshots, eReq[r].userId, eReq[r].linkId) = 1 )
             => LET i == FindIndex(screenshots, eReq[r].userId, eReq[r].linkId)
                IN /\ Len(screenshots') = Len(screenshots)
                   /\ screenshots'[i].screenshotId = screenshots[i].screenshotId
                   /\ screenshots'[i].commentIds = eReq[r].commentIds
                   /\ screenshots'[i].replyIds = eReq[r].replyIds
                   /\ \A j \in DOMAIN screenshots :
                        j # i => screenshots'[j] = screenshots[j]
        /\ \A r \in Handlers :
             ( ePc[r] = "entrySave" /\ eResp'[r].code = "OK" )
             => /\ CountFor(screenshots', eReq[r].userId, eReq[r].linkId) = 1
                /\ CountFor(entries', eReq[r].userId, eReq[r].linkId) = 1
      ]_vars

\* C2 witness: the same user was answered 201 twice on one link and there is
\* one document and one entry, both carrying the ids of the first answer.
C2_Witness ==
    /\ eResp["h1"].code = "OK" /\ eResp["h2"].code = "OK"
    /\ eResp["h1"].userId = eResp["h2"].userId
    /\ eResp["h1"].linkId = eResp["h2"].linkId
    /\ eResp["h1"].screenshotId = eResp["h2"].screenshotId
    /\ eResp["h1"].entryId = eResp["h2"].entryId
    /\ Len(screenshots) = 1
    /\ Len(entries) = 1

(***************************************************************************)
(* Properties of the evidence checks of createUserEntry                    *)
(***************************************************************************)
\* The permalinks the handler examines: the first minComments comment links
\* and the first minReplies reply links.
ExaminedComments(q) ==
    MapParse(Slice(uniq(Bundles[q.bundle].commentLinks), q.minComments))
ExaminedReplies(q) ==
    MapParse(Slice(uniq(Bundles[q.bundle].replyLinks), q.minReplies))

OnCampaignVideo(q, parentId) ==
    parentId \in ThreadIds /\ Threads[parentId].videoId = q.campaignVideoId

\* The replies the handler retrieved from YouTube, with their parent ids.
RetrievedReplies(q, reasons) ==
    IF "REPLY_API_ERROR" \in reasons THEN {}
    ELSE { [parentId |-> p.parentId,
            reply |-> FindReply(ReplyPages(p.parentId), p, 1)] :
              p \in {x \in Range(ExaminedReplies(q)) :
                        OnCampaignVideo(q, x.parentId)} }
         \ { [parentId |-> id, reply |-> NotFound] : id \in ThreadIds }

\* The author channels of the evidence items the handler retrieved.
EvidenceAuthors(q, reasons) ==
    ( { Threads[p.parentId].author :
          p \in {x \in Range(ExaminedComments(q)) :
                    OnCampaignVideo(q, x.parentId)} }
      \cup { x.reply.author : x \in RetrievedReplies(q, reasons) } )
    \ {Null}

\* The reasons a request holds when its evidence checks are over.
ReasonsAfterVerify(r, pcNext, reqNext, respNext) ==
    IF pcNext[r] = "bind" THEN reqNext[r].reasons ELSE respNext[r].reasons

\* The request is answered "not verified" and writes nothing.
EndsUnverified(r, pcNext, respNext, shotsNext, entriesNext) ==
    /\ pcNext[r] = "idle"
    /\ respNext[r].status = 422
    /\ shotsNext = screenshots
    /\ entriesNext = entries

SingleAuthorRecords(docs) ==
    \A i \in DOMAIN docs :
        docs[i].verified =>
            \A k \in DOMAIN docs[i].actions :
                docs[i].actions[k].authorChannelId = docs[i].channelId

SelfReplyRetrieved(q, reasons) ==
    \E x \in RetrievedReplies(q, reasons) :
        x.reply.author = Threads[x.parentId].author

NoSelfReplyRecords(docs) ==
    \A i \in DOMAIN docs :
        docs[i].verified =>
            \A k \in DOMAIN docs[i].actions :
                docs[i].actions[k].kind = "reply" =>
                    docs[i].actions[k].authorChannelId
                        # Threads[docs[i].actions[k].parentId].author

C13_BoundIdentityKept ==
    [][ /\ \A u \in UserIds :
             userChannel[u] # Null => userChannel'[u] = userChannel[u]
        /\ \A r \in Handlers :
             ( /\ ePc[r] = "bind" /\ ePc'[r] # "bind"
               /\ userChannel[eReq[r].userId] # Null
               /\ userChannel[eReq[r].userId] # eReq[r].detected )
             => /\ ePc'[r] = "idle"
                /\ eResp'[r].code = "YT_CHANNEL_MISMATCH"
      ]_vars

\* C14: an id that a verified record of one user on a link has ever listed is
\* never listed by a verified record of another user on that link.
C14_OnePayoutPerContentId ==
    \A i \in DOMAIN screenshots :
        screenshots[i].verified =>
            \A t \in listed :
                ( /\ t[1] = screenshots[i].linkId
                  /\ t[2] \in screenshots[i].commentIds
                                \cup screenshots[i].replyIds )
                => t[3] = screenshots[i].userId

\* The verified documents of other users on the link of q that list one of
\* the comment ids of q.
CommentHolders(q, docs) ==
    {i \in DOMAIN docs :
        /\ docs[i].verified
        /\ docs[i].linkId = q.linkId
        /\ docs[i].userId # q.userId
        /\ docs[i].commentIds \cap q.commentIds # {}}

C16_RaceLossTranslated ==
    [][ \A r \in Handlers :
          ( /\ ePc[r] = "persist" /\ ePc'[r] # "persist"
            /\ eErr'[r].code = 11000
            /\ eErr'[r].keyPattern \in {"linkId_commentIds", "linkId_replyIds"} )
          => /\ ePc'[r] = "idle"
             /\ eResp'[r].status = 409
             /\ eResp'[r].code =
                  IF eErr'[r].keyPattern = "linkId_commentIds"
                  THEN "COMMENT_ALREADY_USED" ELSE "REPLY_ALREADY_USED"
             /\ screenshots' = screenshots
             /\ entries' = entries
      ]_vars

\* C16 witness: a request lost the race on a reply id: its insert was refused
\* on (linkId, replyIds), it was answered REPLY_ALREADY_USED, and the user has
\* no entry.
C16_Witness ==
    /\ eErr["h2"] = [code |-> 11000, keyPattern |-> "linkId_replyIds"]
    /\ eResp["h2"].code = "REPLY_ALREADY_USED"
    /\ Len(screenshots) = 1
    /\ entries = << >>

\* Only the user of request q has documents on the link of q.
OnlyOwnRecords(q) ==
    /\ \A i \in DOMAIN screenshots :
         screenshots[i].linkId = q.linkId => screenshots[i].userId = q.userId
    /\ \A i \in DOMAIN entries :
         entries[i].linkId = q.linkId => entries[i].userId = q.userId

\* C17: a request with verified proof, on a link where only its own user has
\* records, is never answered with a duplicate or reuse error (409), and its
\* entry write is never refused by the entries index.
C17_ResubmissionNeverErrors ==
    [][ \A r \in Handlers :
          ( /\ ePc[r] \in {"reuse", "persist", "entrySave"}
            /\ ePc'[r] # ePc[r]
            /\ OnlyOwnRecords(eReq[r]) )
          => /\ eResp'[r].code = "none" \/ eResp'[r].status # 409
             /\ ePc[r] = "entrySave"
                  => EntryUserLinkIndex(entries, EntryDoc(eReq[r], entries),
                                        eReq[r].entryFound)
      ]_vars

\* C19: a request answered VERIFICATION_FAILED, CHANNEL_NOT_DETECTED or
\* YT_CHANNEL_MISMATCH leaves the screenshots, the entries and the channel
\* bound to every user as they were.
C19_UnverifiedLeavesNoTrace ==
    [][ \A r \in Handlers :
          ( /\ ePc[r] # "idle" /\ ePc'[r] = "idle"
            /\ eResp'[r].code \in {"VERIFICATION_FAILED", "CHANNEL_NOT_DETECTED",
                                   "YT_CHANNEL_MISMATCH"} )
          => /\ screenshots' = screenshots
             /\ entries' = entries
             /\ userChannel' = userChannel
      ]_vars

\* C20: a request during which a YouTube call failed (the commentThreads
\* lookup, or a replies listing, which leaves REPLY_API_ERROR among the
\* reasons) is answered 502 YT_API_ERROR.
C20_ServiceFailureDistinguished ==
    [][ \A r \in Handlers :
          /\ ( /\ ePc[r] = "verify" /\ ePc'[r] = "idle"
               /\ "REPLY_API_ERROR" \in eResp'[r].reasons )
             => /\ eResp'[r].status = 502
                /\ eResp'[r].code = "YT_API_ERROR"
          /\ ( /\ ePc[r] = "bind" /\ ePc'[r] # "bind"
               /\ "REPLY_API_ERROR" \in eReq[r].reasons )
             => /\ ePc'[r] = "idle"
                /\ eResp'[r].status = 502
                /\ eResp'[r].code = "YT_API_ERROR"
      ]_vars

(***************************************************************************)
(* Properties of createLink                                                *)
(***************************************************************************)
ClampedRules(req) ==
    [c |-> createLink_clamp02(req.minComments, 2),
     r |-> createLink_clamp02(req.minReplies, 2)]

ValidLinks(docs) ==
    \A i \in DOMAIN docs :
        /\ docs[i].minComments \in 0..2
        /\ docs[i].minReplies \in 0..2
        /\ ~(docs[i].minComments = 0 /\ docs[i].minReplies = 0)

\* A value that is neither a number nor a string that spells one.
NonNumeric(v) ==
    /\ v.t # "number"
    /\ ~(v.t = "string" /\ v.s \in {"0", "1"})

\* C18 (as stated): a request whose clamped rules are both 0 is answered 400
\* and creates no Link; every Link has rules in 0..2, not both zero; a created
\* Link stores the clamped rules, and 2 for every non-numeric input.
C18_RuleValidity ==
    [][ /\ (ClampedRules(linkReq').c = 0 /\ ClampedRules(linkReq').r = 0)
             => /\ linkResp'.status = 400
                /\ linkDocs' = linkDocs
        /\ ValidLinks(linkDocs')
        /\ linkDocs' # linkDocs
             => LET doc == linkDocs'[Len(linkDocs')]
                IN /\ Len(linkDocs') = Len(linkDocs) + 1
                   /\ doc.minComments = ClampedRules(linkReq').c
                   /\ doc.minReplies = ClampedRules(linkReq').r
                   /\ NonNumeric(linkReq'.minComments) => doc.minComments = 2
                   /\ NonNumeric(linkReq'.minReplies) => doc.minReplies = 2
      ]_vars

\* The rule createLink stores for the values that are not numbers.
StoredForNonNumber(v, stored) ==
    /\ v \in {JUndefined, JStr("two")} => stored = 2
    /\ v = JNull => stored = 0
    /\ v = JBool(TRUE) => stored = 1
    /\ v = JStr("1") => stored = 1

\* C18 (amended): a request whose clamped rules are both 0 is answered 400
\* and creates no Link; every Link has rules in 0..2, not both zero; a created
\* Link stores the clamped rules: 2 for an input Number() does not turn into
\* a finite number (undefined, "two"), but 0 for null and 1 for true.
C18_RuleValidityAmended ==
    [][ /\ (ClampedRules(linkReq').c = 0 /\ ClampedRules(linkReq').r = 0)
             => /\ linkResp'.status = 400
                /\ linkDocs' = linkDocs
        /\ ValidLinks(linkDocs')
        /\ linkDocs' # linkDocs
             => LET doc == linkDocs'[Len(linkDocs')]
                IN /\ Len(linkDocs') = Len(linkDocs) + 1
                   /\ doc.minComments = ClampedRules(linkReq').c
                   /\ doc.minReplies = ClampedRules(linkReq').r
                   /\ StoredForNonNumber(linkReq'.minComments, doc.minComments)
                   /\ StoredForNonNumber(linkReq'.minReplies, doc.minReplies)
      ]_vars

\* C18 witness: a request with minComments 0 and minReplies null was refused
\* with 400 and the collection holds no Link.
C18_Witness ==
    /\ linkReq # NoLinkReq
    /\ linkReq.fields = "ok"
    /\ linkReq.minComments = JNum(0)
    /\ linkReq.minReplies = JNull
    /\ linkResp.status = 400
    /\ linkDocs = << >>

(***************************************************************************)
(* Properties of the reply search                                          *)
(***************************************************************************)
\* Page k of the listing holds the reply that permalink p names.
PageMatches(pages, p, k) ==
    \E x \in PageItems(pages, k) : x.id = p.lc \/ x.id = p.replyKey

\* C21: for each reply proof the search calls ytListRepliesByParent at least
\* once and at most YT_MAX_PAGES times, whatever the number of pages; no page
\* before the last one read holds the reply or lacks a nextPageToken; the
\* search stops before YT_MAX_PAGES calls only on a page that holds the reply
\* or has no nextPageToken; the reply is found exactly when the last page read
\* holds it; and when it is not found the reasons hold REPLY_NOT_FOUND.
C21_ReplySearchTerminates ==
    [][ \A r \in Handlers :
          ( ePc[r] = "verify" /\ ePc'[r] # "verify" )
          => \A p \in {x \in Range(ExaminedReplies(eReq[r])) :
                          OnCampaignVideo(eReq[r], x.parentId)} :
               LET pages == ReplyPages(p.parentId)
                   search == ReplySearch(pages, p, 1)
                   reasons == ReasonsAfterVerify(r, ePc', eReq', eResp')
               IN /\ search.calls >= 1
                  /\ search.calls <= YT_MAX_PAGES
                  /\ \A k \in 1..(search.calls - 1) :
                       ~PageMatches(pages, p, k) /\ HasNextPage(pages, k)
                  /\ search.calls < YT_MAX_PAGES
                       => \/ PageMatches(pages, p, search.calls)
                          \/ ~HasNextPage(pages, search.calls)
                  /\ search.found # NotFound
                       <=> PageMatches(pages, p, search.calls)
                  /\ ( search.found = NotFound
                       \/ "REPLY_API_ERROR" \in reasons )
                       => "REPLY_NOT_FOUND" \in reasons
      ]_vars

\* C21 witness: the reply of the request sits on the sixth page of its
\* thread; the search gave up after YT_MAX_PAGES pages and the request holds
\* REPLY_NOT_FOUND without any API error.
C21_Witness ==
    /\ ePc["h1"] = "bind"
    /\ eReq["h1"].bundle = "b6"
    /\ Len(ReplyPages("c4")) > YT_MAX_PAGES
    /\ eReq["h1"].reasons = {"REPLY_NOT_FOUND"}

(***************************************************************************)
(* hexHamming                                                              *)
(***************************************************************************)
\* C22: the Hamming distance is symmetric and zero on identical inputs: for
\* all hex strings a and b, of equal or unequal length, hexHamming(a, b) =
\* hexHamming(b, a) and hexHamming(a, a) = 0.
C22_HammingSymmetric ==
    hamOut # NoHamming
        => /\ hamOut.ab = hamOut.ba
           /\ hamOut.aa = 0
           /\ hamOut.bb = 0

\* two strings of unequal length that differ have been compared
C22_Witness ==
    /\ hamOut # NoHamming
    /\ Len(hamIn.a) < Len(hamIn.b)
    /\ hamIn.a # << >>
    /\ hamOut.ab > 0

\* The bits of a hex string, most significant first, once it is left-padded
\* with '0' to len characters: bit j of the string is bit 3 - ((j-1) mod 4) of
\* the digit at position ((j-1) div 4) + 1.
BitString(s, len) ==
    LET pad == len - Len(s)
        digit(i) == IF i <= pad THEN 0 ELSE parseInt16(s[i - pad])
    IN [j \in 1..(4 * len) |-> BitOf(digit(((j - 1) \div 4) + 1), 3 - ((j - 1) % 4))]

DifferingBits(a, b) ==
    LET len == IF Len(a) >= Len(b) THEN Len(a) ELSE Len(b)
    IN Cardinality({j \in 1..(4 * len) : BitString(a, len)[j] # BitString(b, len)[j]})

\* C23: hexHamming(a, b) is the number of bit positions in which a and b
\* differ after the shorter string is left-padded with '0' to the length of
\* the longer one.
C23_HammingCountsBits ==
    hamOut # NoHamming => hamOut.ab = DifferingBits(hamIn.a, hamIn.b)

\* a shorter string was padded and the pair differs in all four bits of a digit
C23_Witness ==
    /\ hamOut # NoHamming
    /\ Len(hamIn.a) > Len(hamIn.b)
    /\ hamOut.ab >= 4
    /\ hamIn.b # << >>

(***************************************************************************)
(* createUserEntry, image generations                                      *)
(***************************************************************************)
\* some perceptual hash of the request's bundle is within 6 bits of some
\* perceptual hash of a Screenshot stored for the request's userId
NearStored(h) ==
    \E i \in DOMAIN imgShots, j \in RoleIndexes, k \in DOMAIN imgReq[h].hashed :
        /\ imgShots[i].userId = imgReq[h].userId
        /\ j \in DOMAIN imgShots[i].phashes
        /\ DifferingBits(imgReq[h].hashed[k].phash, imgShots[i].phashes[j]) <= 6

ImgAnswered(h, code) ==
    /\ imgPc[h] # "idle"
    /\ imgPc'[h] = "idle"
    /\ imgResp'[h].code = code

ReusedHashes(h) ==
    Cardinality({k \in DOMAIN imgReq[h].hashed :
        \E i \in DOMAIN imgShots, j \in RoleIndexes :
            /\ imgShots[i].userId = imgReq[h].userId
            /\ imgShots[i].linkId = imgReq[h].linkId
            /\ j \in DOMAIN imgShots[i].files
            /\ imgShots[i].files[j].sha256 = imgReq[h].hashed[k].sha256})

\* the request leaves its guards with at least imageCount - 1 of its files
\* reused, imageCount being one of counts
ReuseGuardFor(counts) ==
    \A h \in ImgHandlers :
        ( /\ imgPc[h] = "dup"
          /\ imgPc'[h] # "dup"
          /\ Len(imgReq[h].hashed) \in counts
          /\ ReusedHashes(h) >= Len(imgReq[h].hashed) - 1 )
            => /\ ImgAnswered(h, "NEAR_DUPLICATE")
               /\ UNCHANGED <<imgShots, imgEntries>>

VerifiedHandle(d) == normalizeHandle(d.analysis.user_id)

\* a verified Screenshot of the request's campaign already carries its handle
HandleHeld(h) ==
    \E i \in DOMAIN imgShots :
        /\ imgShots[i].verified
        /\ imgShots[i].linkId = imgReq[h].linkId
        /\ VerifiedHandle(imgShots[i]) = normalizeHandle(imgReq[h].payload.user_id)

\* the request's own bundle is already stored for its user and campaign
OwnBundleStored(h) ==
    \E i \in DOMAIN imgShots :
        /\ imgShots[i].userId = imgReq[h].userId
        /\ imgShots[i].linkId = imgReq[h].linkId
        /\ \/ imgShots[i].bundleSig = {imgReq[h].hashed[k].phash : k \in DOMAIN imgReq[h].hashed}
           \/ imgShots[i].bundleSha = {imgReq[h].hashed[k].sha256 : k \in DOMAIN imgReq[h].hashed}

\* C26 (state part): in every reachable state at most one Screenshot with
\* verified = true exists per (linkId, normalized handle), across all users
\* and with requests running concurrently.
C26_OneVerifiedPerHandle ==
    \A i, j \in DOMAIN imgShots :
        ( /\ i # j
          /\ imgShots[i].verified /\ imgShots[j].verified
          /\ imgShots[i].linkId = imgShots[j].linkId )
            => VerifiedHandle(imgShots[i]) # VerifiedHandle(imgShots[j])

FlipVerified(a) == [a EXCEPT !.verified = ~a.verified]

\* C27: the analyzer's own verified flag never influences the outcome: a
\* step that takes the analyzer's answer is, from the same state, the very
\* same step (decision, response, locals, collections) when the answer
\* differs only in its verified flag; in both image generations.
C27_VerifiedFlagIgnored ==
    [][\A h \in ImgHandlers : \A a \in AnalysisResults :
          ImgAnalyzeWith(h, a) => ImgAnalyzeWith(h, FlipVerified(a))]_vars

\* the Flask generation decided a request unverified after an earlier request
\* was stored as verified; each decision was reached for either value of the
\* analyzer's flag
C27_Witness ==
    /\ imgReq["g1"] # NoImgReq
    /\ imgReq["g1"].gen = "flask"
    /\ imgPc["g1"] = "idle"
    /\ imgResp["g1"].code = "VERIFICATION_FAILED"
    /\ imgReq["g1"].payload # NoPayload
    /\ ~imgReq["g1"].payload.verified
    /\ Len(imgShots) = 1
    /\ imgShots[1].analysis.verified

(***************************************************************************)
(* callVisionFast                                                          *)
(***************************************************************************)
\* C28: with AGGRESSIVE_RACE off, callVisionFast tries, in this order and
\* stopping at the first success, the primary model with PRIMARY_TOKENS, the
\* primary model with the larger RETRY_TOKENS, the fallback model with
\* RETRY_TOKENS; it makes at most three attempts, never calls the fallback
\* before the primary retry, and throws only when all three have failed.
C28_VisionRetryOrder ==
    ~visIn.aggressive =>
        /\ Len(visCalls) <= 3
        /\ RETRY_TOKENS > PRIMARY_TOKENS
        /\ Len(visCalls) >= 1
              => visCalls[1].model = "primary" /\ visCalls[1].tokens = PRIMARY_TOKENS
        /\ Len(visCalls) >= 2
              => visCalls[2].model = "primary" /\ visCalls[2].tokens = RETRY_TOKENS
        /\ Len(visCalls) >= 3
              => visCalls[3].model = "fallback" /\ visCalls[3].tokens = RETRY_TOKENS
        /\ \A k \in 1..(Len(visCalls) - 1) : visCalls[k].outcome # "ok"
        /\ visOut.state = "pending"
              => \A k \in DOMAIN visCalls : visCalls[k].outcome # "ok"
        /\ visOut.state = "returned"
              => /\ visCalls[Len(visCalls)].outcome = "ok"
                 /\ visOut.value.by = visCalls[Len(visCalls)].model
                 /\ visOut.value.tokens = visCalls[Len(visCalls)].tokens
                 /\ visOut.value.of = visIn.image
        /\ visOut.state = "thrown"
              => /\ Len(visCalls) = 3
                 /\ \A k \in 1..3 : visCalls[k].outcome # "ok"

\* the first two attempts failed and the fallback model answered
C28_Witness ==
    /\ ~visIn.aggressive
    /\ Len(visCalls) = 3
    /\ visCalls[1].outcome = "badJson"
    /\ visCalls[2].outcome = "timeout"
    /\ visOut.state = "returned"
    /\ visOut.value.by = "fallback"

(***************************************************************************)
(* extractEmailsAndHandlesBatch                                            *)
(***************************************************************************)
\* C29: the extraction cache is keyed by image content: two uploaded images
\* with different content never share a cache entry, so no image is given
\* the cached extraction result computed for a different image.
C29_CacheKeyedByContent ==
    /\ xTask.pc \in {"persist", "enrich"} => xTask.shaped.of = xTask.file.content
    /\ (xResult # NoXResult /\ "of" \in DOMAIN xResult)
          => xResult.of = xResult.file.content

(***************************************************************************)
(* C30: the index migration is idempotent and ordered.  Under --apply the  *)
(* database a second run leaves behind (documents and indexes of both      *)
(* collections) is the one the first run left behind; in every run, once   *)
(* the backfill step is over no document lacks entryId / screenshotId, so  *)
(* the unique index on that field is only ever created over documents that *)
(* all have one; and without --apply no step changes a document or an      *)
(* index.                                                                  *)
(***************************************************************************)
FxLacks(d, f) == d[f] = FxMissing \/ d[f] = Null \/ d[f] = ""

FxCreated(idxField, name) ==
    /\ ~(\E o \in fxDb[idxField] : o.name = name)
    /\ \E o \in fxDb'[idxField] : o.name = name

C30_SecondRunSame ==
    (fxArgs.apply /\ fxRun >= 2 /\ fxPc = FxIdle) => fxDb = fxSnap.db

C30_AssignedAfterBackfill ==
    (fxArgs.apply /\ fxPc.at \in {"dedupe", "ensure", "end"})
        => /\ \A d \in fxDb.entries : ~FxLacks(d, "entryId")
           /\ \A d \in fxDb.shots : ~FxLacks(d, "screenshotId")

C30_BackfillBeforeIndex ==
    /\ FxCreated("eIdx", "entryId_1")
          => \A d \in fxDb.entries : ~FxLacks(d, "entryId")
    /\ FxCreated("sIdx", "screenshotId_1")
          => \A d \in fxDb.shots : ~FxLacks(d, "screenshotId")

C30_DryRunNoWrite == ~fxArgs.apply => fxDb' = fxDb

C30_IndexMigration ==
    /\ []C30_SecondRunSame
    /\ []C30_AssignedAfterBackfill
    /\ [][C30_BackfillBeforeIndex]_vars
    /\ [][C30_DryRunNoWrite]_vars

\* two --apply runs have ended; the first one gave ids to an entry and to a
\* screenshot and created both id indexes
C30_Witness ==
    /\ fxArgs.apply
    /\ fxRun = 2
    /\ fxPc = FxIdle
    /\ \E d \in fxDb.entries : \E i \in 1..Len(FxUuids) : d.entryId = FxUuids[i]
    /\ \E d \in fxDb.shots : \E i \in 1..Len(FxUuids) : d.screenshotId = FxUuids[i]
    /\ \E o \in fxDb.eIdx : o.name = "entryId_1"
    /\ \E o \in fxDb.sIdx : o.name = "screenshotId_1"

(***************************************************************************)
(* C31: each entry is debited at most once.  Whatever the interleaving of  *)
(* setEntryStatus(approve=1) requests on one pending entry, at most one of *)
(* them decrements the target employee's balance, so the balance goes down *)
(* by the entry's deduction exactly once.                                  *)
(***************************************************************************)
\* request r has run Employee.updateOne with its $inc
StatusDebited(r) ==
    /\ sReq[r] # NoReq
    /\ sReq[r].approve = 1
    /\ sSeen[r] # Approved
    /\ \/ sPc[r] \in {"update", "readBalance"}
       \/ sPc[r] = "done" /\ sResp[r] \in {"Approved", "AlreadyApproved"}

DebitsOf(n) == {r \in SSlots : StatusDebited(r) /\ sReq[r].entryId = n}

C31_DebitedOnce ==
    \A n \in EntryIds :
        (\A r \in DebitsOf(n) : sSeen[r] = Pending) => Cardinality(DebitsOf(n)) <= 1

(***************************************************************************)
(* C32: starting from non-negative balances, approvals of different        *)
(* entries charged to one employee never make that employee's balance      *)
(* negative, whatever their interleaving.                                  *)
(***************************************************************************)
C32_BalanceNeverNegative ==
    (\A n \in EntryIds : Cardinality(DebitsOf(n)) <= 1)
        => \A e \in EmployeeIds : balance[e] >= 0

(***************************************************************************)
(* C33: record and entry stay paired.  Whenever no createUserEntry request *)
(* is in flight, a verified Screenshot of (userId, linkId) exists exactly  *)
(* when a type-1 Entry of (userId, linkId) referencing its screenshotId    *)
(* exists, whatever the outcome of the requests so far.                    *)
(***************************************************************************)
VerifiedShotOf(u, l) ==
    {i \in DOMAIN screenshots :
        /\ screenshots[i].userId = u
        /\ screenshots[i].linkId = l
        /\ screenshots[i].verified}

EntryReferring(u, l, id) ==
    \E j \in DOMAIN entries :
        /\ entries[j].userId = u
        /\ entries[j].linkId = l
        /\ entries[j].screenshotId = id

C33_RecordEntryPaired ==
    (\A h \in Handlers : ePc[h] = "idle")
        => \A u \in UserIds, l \in LinkIds :
             /\ \A i \in VerifiedShotOf(u, l) :
                   EntryReferring(u, l, screenshots[i].screenshotId)
             /\ \A j \in DOMAIN entries :
                   (entries[j].userId = u /\ entries[j].linkId = l)
                      => \E i \in VerifiedShotOf(u, l) :
                            screenshots[i].screenshotId = entries[j].screenshotId

(***************************************************************************)
(* C34: distinct evidence.  Every record persisted with verified = true    *)
(* lists at least minComments distinct comment ids and at least minReplies *)
(* distinct reply ids; two comment permalinks that resolve to one comment  *)
(* id do not satisfy minComments = 2.                                      *)
(***************************************************************************)
C34_DistinctEvidence ==
    \A i \in DOMAIN screenshots :
        screenshots[i].verified =>
            /\ Cardinality(screenshots[i].commentIds)
                  >= clamp02(Links[screenshots[i].linkId].minComments, 2)
            /\ Cardinality(screenshots[i].replyIds)
                  >= clamp02(Links[screenshots[i].linkId].minReplies, 2)

(***************************************************************************)
(* C35: employee-entry accounting.  Over any sequence of                   *)
(* createEmployeeEntry, updateEntry and one approving setEntryStatus, the  *)
(* amount removed from the employee's balance equals the current amount of *)
(* the entry: the entry is charged once.                                   *)
(***************************************************************************)
C35_ChargedOnce ==
    acctOpening - acctBalance = (IF acctEntry.exists THEN acctEntry.amount ELSE 0)

(***************************************************************************)
(* C36: in the updated Flask generation, a request for a campaign whose    *)
(* rules ask for fewer than five images, carrying exactly the required     *)
(* role images and having passed verification, is not answered with a      *)
(* persistence error when its Screenshot is written.                       *)
(***************************************************************************)
ExactlyRequired(q) ==
    LET rules == ImgRules(q.gen, q.linkId)
        required == RequiredRoles(q.gen, rules.minComments, rules.minReplies,
                                  rules.requireLike)
    IN /\ q.gen = "flask"
       /\ Cardinality(required) < 5
       /\ PresentRoles(q.bundle) = required

C36_FewerImagesPersist ==
    [][\A h \in ImgHandlers :
          (imgPc[h] = "shot" /\ ExactlyRequired(imgReq[h]) /\ imgPc'[h] # "shot")
              => imgResp'[h].code # "SCREENSHOT_PERSIST_ERROR"]_vars

(***************************************************************************)
(* C37: the in-process cache holds parsed extraction output only.  No      *)
(* value stored by cacheSet carries the outcome of a database write        *)
(* (saved = true, the id of the document written).                         *)
(***************************************************************************)
C37_CacheHoldsNoDbResult ==
    \A i \in DOMAIN cache :
        "saved" \in DOMAIN cache[i].data => ~cache[i].data.saved

(***************************************************************************)
(* C38: cache TTL.  A lookup returns the stored data only when it was      *)
(* stored at most CACHE_TTL_MS before the call; a lookup that meets an     *)
(* older entry reports a miss and removes the entry (the enrichment then   *)
(* stores a fresh one under the key, dated at the time of the call).       *)
(***************************************************************************)
C38_CacheTtl ==
    [][ /\ (xTask = XIdle /\ xTask' # XIdle) =>
             LET key == FileCacheKey(xTask'.file)
                 i == KeyIndex(cache, key)
             IN /\ xTask'.pc = "persist" =>
                     /\ i # 0
                     /\ cacheNow - cache[i].ts <= CACHE_TTL_MS
                     /\ xTask'.shaped = cache[i].data
                /\ (i # 0 /\ cacheNow - cache[i].ts > CACHE_TTL_MS) =>
                     /\ xTask'.pc = "vision"
                     /\ KeyIndex(cache', key) = 0
        /\ (xTask.pc = "enrich" /\ xTask' = XIdle) =>
             LET key == YtCacheKey(xTask.shaped.handle)
                 i == KeyIndex(cache, key)
             IN /\ xResult'.ytHit =>
                     /\ i # 0
                     /\ cacheNow - cache[i].ts <= CACHE_TTL_MS
                     /\ xResult'.youtube = cache[i].data
                     /\ cache' = cache
                /\ (i # 0 /\ cacheNow - cache[i].ts > CACHE_TTL_MS) =>
                     /\ ~xResult'.ytHit
                     /\ cache'[KeyIndex(cache', key)].ts = cacheNow
                     /\ Len(cache') = Len(cache)
      ]_vars

\* the entry of a parsed picture has expired and a lookup has removed it: of
\* the two entries of the first request only the later one is left
C38_Witness ==
    /\ xTask.pc = "vision"
    /\ Len(cache) = 1
    /\ cache[1].key[1] = "yt1"
    /\ cacheNow - cache[1].ts <= CACHE_TTL_MS

(***************************************************************************)
(* Properties of analyzeBundle                                             *)
(***************************************************************************)
OcrDone == ocrOut # NoOcrResult

\* the handle is read on the side, with or without a text under it
HandleAppears(lines, h) ==
    \E k \in DOMAIN OcrBlocks(lines, 1) : OcrBlocks(lines, 1)[k].handle = h

\* the handle is read on the side with a text that survives the cleaning
HandleHasText(lines, h) ==
    \E k \in DOMAIN OcrBlocks(lines, 1) :
        /\ OcrBlocks(lines, 1)[k].handle = h
        /\ OcrBlocks(lines, 1)[k].text # << >>

OcrHandles == {InlineHandle[t] : t \in DOMAIN InlineHandle}
                 \cup {AtHandle[t] : t \in DOMAIN AtHandle}

\* the refined texts read under the handle on the side, in order
OwnTexts(lines, h) ==
    LET Own(b) == b.handle = h /\ b.text # << >>
        own == SelectSeq(OcrBlocks(lines, 1), Own)
    IN [k \in DOMAIN own |-> refineText(own[k].text)]

\* what is returned for the author chosen, and what is returned without one
OcrSelected(Corroborated(_)) ==
    /\ ocrOut.user_id # NoUser <=> \E h \in OcrHandles : Corroborated(h)
    /\ ocrOut.user_id # NoUser =>
         /\ Corroborated(ocrOut.user_id)
         /\ ocrOut.comment = OwnTexts(ocrIn.comments, ocrOut.user_id)
         /\ ocrOut.replies = OwnTexts(ocrIn.replies, ocrOut.user_id)
    /\ ocrOut.user_id = NoUser =>
         /\ ocrOut.comment = << >>
         /\ ocrOut.replies = << >>
         /\ ~ocrOut.verified

(***************************************************************************)
(* C39: OCR author selection.  As claimed: analyzeBundle returns a user_id *)
(* exactly when some handle appears in the text of the comment images and  *)
(* in the text of the reply images; the comments and replies returned are  *)
(* that handle's texts only; without such a handle the result has a null   *)
(* user_id, no comment, no reply and verified = false.                     *)
(***************************************************************************)
C39_AuthorWhenHandleAppears ==
    OcrDone =>
        LET Appears(h) == /\ HandleAppears(ocrIn.comments, h)
                          /\ HandleAppears(ocrIn.replies, h)
        IN OcrSelected(Appears)

(***************************************************************************)
(* C39, amended: analyzeBundle returns a user_id exactly when some handle  *)
(* has, on the comment side and on the reply side, at least one text that  *)
(* is not empty after cleaning; the comments and replies returned are that *)
(* handle's texts only; without such a handle the result has a null        *)
(* user_id, no comment, no reply and verified = false.                     *)
(***************************************************************************)
C39_AuthorWhenHandleHasText ==
    OcrDone =>
        LET WithText(h) == /\ HandleHasText(ocrIn.comments, h)
                           /\ HandleHasText(ocrIn.replies, h)
        IN OcrSelected(WithText)

\* an author is chosen while another handle has a comment too and is read on
\* the reply side with no text under it
C39_Witness ==
    /\ OcrDone
    /\ ocrOut.user_id = "@al"
    /\ ocrOut.comment # << >>
    /\ HandleHasText(ocrIn.comments, "@bo")
    /\ HandleAppears(ocrIn.replies, "@bo")
    /\ ~HandleHasText(ocrIn.replies, "@bo")

====
